---------------------------- MODULE Spec2Model ----------------------------
(***************************************************************************)
(* Model of the EPUB engine of plato (src/document/epub/mod.rs): the spine *)
(* and its global offset space, the per-spine display-list cache, the      *)
(* setters that invalidate it and the navigation queries built on it.      *)
(*                                                                         *)
(* Lengths are in pixels.  Quantities the code keeps in f32 are kept in    *)
(* tenths (font size in tenths of a point, line height in tenths of an em, *)
(* margin width in tenths of a millimetre), and every rounding the code    *)
(* does is done here with DivRound.                                        *)
(*                                                                         *)
(* The archive is a fixed set of small XHTML documents (Archive); the      *)
(* paragraph breaker (crate paragraph_breaker) and the font service are    *)
(* external: a paragraph states how many boxes the breaker puts on a line, *)
(* and a font family states its ascender and descender.                    *)
(***************************************************************************)
EXTENDS Integers, Sequences, FiniteSets, TLC

VARIABLES
    spine,                \* EpubDocument.spine: sequence of [path, size]
    cache,                \* EpubDocument.cache: spine index -> display list
    fonts,                \* EpubDocument.fonts: None or Some([serif |-> family])
    ignore_document_css,  \* EpubDocument.ignore_document_css
    margin,               \* EpubDocument.margin (uniform Edge, px)
    font_size,            \* EpubDocument.font_size (tenths of a point)
    text_align,           \* EpubDocument.text_align
    line_height,          \* EpubDocument.line_height (tenths of an em)
    dims,                 \* EpubDocument.dims: <<width, height>> in px
    dpi,                  \* EpubDocument.dpi
    op,                   \* name of the last operation called on the engine
    ret,                  \* what that call returned
    font_files,           \* whether the files under fonts/ can be opened
    probe,                \* a layout step taken alone: [fn, arg, out]
    presets_list,         \* a PresetsList and the frame of its update
    input,                \* the locals of parse_device_events
    framebuffer           \* a KoboFramebuffer: [token, flags, monochrome]

vars == <<spine, cache, fonts, ignore_document_css, margin, font_size,
          text_align, line_height, dims, dpi, op, ret, font_files, probe,
          presets_list, input, framebuffer>>

-----------------------------------------------------------------------------
(* Option values and small helpers.                                        *)

None == <<>>
Some(x) == <<x>>
IsSome(o) == o # <<>>
Unwrap(o) == o[1]

\* f32::round of the non-negative quotient a / b.
DivRound(a, b) == (2 * a + b) \div (2 * b)

Max(a, b) == IF a >= b THEN a ELSE b

RECURSIVE SumSizes(_, _)
SumSizes(chunks, n) ==
    IF n = 0 THEN 0 ELSE chunks[n].size + SumSizes(chunks, n - 1)

-----------------------------------------------------------------------------
(* Program constants.                                                      *)

DEFAULT_DPI == 300
DEFAULT_WIDTH == 1404
DEFAULT_HEIGHT == 1872
\* crate::settings (tenths): 11.0 pt, 7.2 mm, 1.2 em, Justify.
DEFAULT_FONT_SIZE == 110
DEFAULT_MARGIN_WIDTH == 72
DEFAULT_LINE_HEIGHT == 12
DEFAULT_TEXT_ALIGN == "Justify"

\* crate::unit: mm * dpi / 25.4 and pt * dpi / 72, rounded by the caller.
\* mm10 is in tenths of a millimetre, pt100 in hundredths of a point.
mm_to_px(mm10, d) == DivRound(mm10 * d, 254)
pt_to_px(pt100, d) == DivRound(pt100 * d, 7200)

-----------------------------------------------------------------------------
(* The archive.  A document is [size, readable, has_body, body_offset,     *)
(* root_ids, paras]; a paragraph is a block child of body:                 *)
(*   offset      byte offset of the element in its chunk                   *)
(*   id          its id attribute ("" when it has none)                    *)
(*   margin_top  the margin-top the document stylesheet gives it (px)      *)
(*   margin_bottom  its margin-bottom, likewise                            *)
(*   inlines     its children: Text nodes [kind, offset, text] and floated *)
(*               images [kind, offset]                                     *)
(*   per_line    boxes the paragraph breaker puts on one line              *)
(* A text is a sequence of characters, each given by its length in bytes;  *)
(* 0 stands for an ASCII space (one byte).                                 *)

TextNode(o, t) == [kind |-> "Text", offset |-> o, text |-> t]
FloatImage(o) == [kind |-> "Float", offset |-> o, text |-> <<>>]
Para(o, i, m, inl, n) ==
    [offset |-> o, id |-> i, margin_top |-> m, margin_bottom |-> 0,
     inlines |-> inl, per_line |-> n]

\* <body><p id="p1">a b c</p></body>, margin-top from the document CSS.
DocText ==
    [size |-> 10, readable |-> TRUE, has_body |-> TRUE, body_offset |-> 1,
     root_ids |-> <<>>,
     paras |-> <<Para(2, "p1", 30, <<TextNode(3, <<1, 0, 1, 0, 1>>)>>, 1)>>]

\* <body><p>a e'</p><p id="p2">b</p></body>, e' a two-byte character.
DocAccent ==
    [size |-> 10, readable |-> TRUE, has_body |-> TRUE, body_offset |-> 1,
     root_ids |-> <<>>,
     paras |-> <<Para(2, "", 0, <<TextNode(3, <<1, 0, 2>>)>>, 1),
                 Para(7, "p2", 0, <<TextNode(8, <<1>>)>>, 1)>>]

\* <body><p>a</p><p id="p3">b c<img style="float:left"/></p><p>d</p></body>
DocFloat ==
    [size |-> 12, readable |-> TRUE, has_body |-> TRUE, body_offset |-> 1,
     root_ids |-> <<>>,
     paras |-> <<Para(2, "", 0, <<TextNode(3, <<1>>)>>, 1),
                 Para(4, "p3", 0,
                      <<TextNode(5, <<1, 0, 1>>), FloatImage(8)>>, 1),
                 Para(9, "", 0, <<TextNode(10, <<1>>)>>, 1)>>]

\* <body></body>
DocEmpty ==
    [size |-> 5, readable |-> TRUE, has_body |-> TRUE, body_offset |-> 2,
     root_ids |-> <<>>, paras |-> <<>>]

\* <svg id="cover">...</svg>: a spine item with no body element.
DocNoBody ==
    [size |-> 4, readable |-> TRUE, has_body |-> FALSE, body_offset |-> 0,
     root_ids |-> <<<<"cover", 0>>>>, paras |-> <<>>]

\* An entry whose bytes are not UTF-8: read_to_string fails.
DocUnreadable ==
    [size |-> 3, readable |-> FALSE, has_body |-> FALSE, body_offset |-> 0,
     root_ids |-> <<>>, paras |-> <<>>]

Paths == {"text", "accent", "float", "empty", "nobody", "binary"}

Archive ==
    [p \in Paths |->
        CASE p = "text" -> DocText
          [] p = "accent" -> DocAccent
          [] p = "float" -> DocFloat
          [] p = "empty" -> DocEmpty
          [] p = "nobody" -> DocNoBody
          [] p = "binary" -> DocUnreadable]

\* The books (spines) the engine is opened on.
Books ==
    {<<"text", "float">>, <<"accent", "nobody">>, <<"binary", "empty">>}

\* The font service: ascender and descender of a family, and the families
\* FontFamily::from_name can load.
DefaultSerif == "LibertinusSerif"
LoadableFamilies == {"LibertinusSerif", "Bitter"}
Ascender(family) == IF family = "Bitter" THEN 4 ELSE 3
Descender(family) == -1

-----------------------------------------------------------------------------
(* Layout: build_display_list and what it calls.  A draw command is        *)
(* [kind, offset] with kind Marker, Text or Image and a global offset; a   *)
(* page is a sequence of commands, a display list a sequence of pages.     *)

Cmd(k, o) == [kind |-> k, offset |-> o]

\* A Text command with the y of its position (the baseline of its line).
TextCommand(o, y) == [kind |-> "Text", offset |-> o, y |-> y]

CharLen(c) == IF c = 0 THEN 1 ELSE c

RECURSIVE ByteLen(_)
ByteLen(text) ==
    IF text = <<>> THEN 0 ELSE CharLen(Head(text)) + ByteLen(Tail(text))

\* text.char_indices().last(): byte index of the last character.
LastCharIndex(text) == ByteLen(text) - CharLen(text[Len(text)])

\* make_paragraph_items on one Text material: the local offsets of the
\* boxes built from its words.  k is the next character, i its byte index,
\* buf_len the length of the word gathered so far.
RECURSIVE text_boxes(_, _, _, _, _)
text_boxes(offset, text, k, i, buf_len) ==
    IF k > Len(text)
    THEN IF buf_len > 0
         THEN <<offset + LastCharIndex(text) - buf_len + 1>>
         ELSE <<>>
    ELSE IF text[k] = 0
         THEN (IF buf_len > 0 THEN <<offset + i - buf_len + 1>> ELSE <<>>)
              \o text_boxes(offset, text, k + 1, i + 1, 0)
         ELSE text_boxes(offset, text, k + 1, i + text[k], buf_len + text[k])

\* make_paragraph_items: <<boxes, floats>> of a paragraph's inline material.
RECURSIVE make_paragraph_items(_)
make_paragraph_items(inlines) ==
    IF inlines = <<>> THEN <<<<>>, <<>>>>
    ELSE LET m == Head(inlines)
             rest == make_paragraph_items(Tail(inlines))
         IN IF m.kind = "Float"
            THEN <<rest[1], <<m.offset>> \o rest[2]>>
            ELSE <<text_boxes(m.offset, m.text, 1, 0, 0) \o rest[1], rest[2]>>

\* The while loop over markers: index of the first marker not below off.
RECURSIVE markers_upto(_, _, _)
markers_upto(markers, mi, off) ==
    IF mi < Len(markers) /\ markers[mi + 1] < off
    THEN markers_upto(markers, mi + 1, off)
    ELSE mi

MarkerCmds(markers, from, to, start_offset) ==
    [k \in 1..(to - from) |-> Cmd("Marker", start_offset + markers[from + k])]

\* The boxes of one line: pending markers, then the Text command.
RECURSIVE place_boxes(_, _, _, _, _, _)
place_boxes(boxes, markers, mi, page, y, start_offset) ==
    IF boxes = <<>> THEN [page |-> page, mi |-> mi]
    ELSE LET off == Head(boxes)
             mj == markers_upto(markers, mi, off)
         IN place_boxes(Tail(boxes), markers, mj,
                        page \o MarkerCmds(markers, mi, mj, start_offset)
                             \o <<TextCommand(start_offset + off, y)>>,
                        y, start_offset)

\* The loop over the breakpoints: one line after the other, a new page
\* when the cursor passes the bottom of the page.
RECURSIVE place_lines(_, _, _, _, _, _, _, _)
place_lines(boxes, per_line, markers, mi, page, dl, y, m) ==
    IF boxes = <<>> THEN [page |-> page, dl |-> dl, y |-> y, mi |-> mi]
    ELSE LET n == IF per_line < Len(boxes) THEN per_line ELSE Len(boxes)
             rest == SubSeq(boxes, n + 1, Len(boxes))
             placed == place_boxes(SubSeq(boxes, 1, n), markers, mi, page,
                                   y, m.start_offset)
             y1 == IF rest # <<>> THEN y + m.line_height ELSE y
             over == y1 > m.max_y - m.space_bottom
         IN place_lines(rest, per_line, markers, placed.mi,
                        IF over THEN <<>> ELSE placed.page,
                        IF over THEN Append(dl, placed.page) ELSE dl,
                        IF over THEN m.min_y + m.space_top ELSE y1,
                        m)

\* The end of place_paragraphs: the markers left over go on the current
\* page, the page goes back on the display list, the cursor moves down.
close_paragraph(r, markers, m) ==
    [dl |-> Append(r.dl, r.page \o MarkerCmds(markers, r.mi, Len(markers),
                                              m.start_offset)),
     y |-> r.y + m.space_bottom]

\* place_paragraphs without the page push at the start of the paragraph.
place_paragraphs_unchecked(inlines, margin_top, per_line, markers, st, m) ==
    LET items == make_paragraph_items(inlines)
    IN close_paragraph(
           place_lines(items[1], per_line, markers, 0,
                       st.dl[Len(st.dl)]
                           \o [k \in 1..Len(items[2]) |->
                                  Cmd("Image", m.start_offset + items[2][k])],
                       SubSeq(st.dl, 1, Len(st.dl) - 1),
                       st.y + margin_top + m.space_top, m),
           markers, m)

\* place_paragraphs: st is [dl, y], the display list (its last page is the
\* current one) and the vertical cursor.
place_paragraphs(inlines, margin_top, per_line, markers, st, m) ==
    LET y0 == st.y + margin_top + m.space_top
        page0 == st.dl[Len(st.dl)]
        dl0 == SubSeq(st.dl, 1, Len(st.dl) - 1)
        over == y0 > m.max_y - m.space_bottom
        dl1 == IF over THEN Append(dl0, page0) ELSE dl0
        y1 == IF over THEN m.min_y + m.space_top ELSE y0
        page1 == IF over THEN <<>> ELSE page0
        items == make_paragraph_items(inlines)
        page2 == page1 \o [k \in 1..Len(items[2]) |->
                             Cmd("Image", m.start_offset + items[2][k])]
    IN close_paragraph(place_lines(items[1], per_line, markers, 0, page2,
                                   dl1, y1, m),
                       markers, m)

\* layout::collapse_margins.
collapse_margins(a, b) ==
    IF a >= 0 /\ b >= 0 THEN Max(a, b)
    ELSE IF a < 0 /\ b < 0 THEN (IF a <= b THEN a ELSE b)
    ELSE a + b

\* The margins the stylesheets give a block: none of the document's when
\* its CSS is ignored.
specified_margin(node, ignore_css) ==
    IF ignore_css THEN [top |-> 0, bottom |-> 0]
    ELSE [top |-> node.margin_top, bottom |-> node.margin_bottom]

\* The top margin with the sibling's bottom margin added on its own.
top_margin_after_bottom(node, ignore_css, st) ==
    st.sibling_bottom + specified_margin(node, ignore_css).top

\* style.margin.top of a child of body: collapsed with the bottom margin of
\* the previous sibling and, for the first child, with the top margin of
\* body (body takes no margin).  st is [dl, y, sibling_bottom, is_first].
top_margin(node, ignore_css, st) ==
    LET c == collapse_margins(st.sibling_bottom,
                              specified_margin(node, ignore_css).top)
    IN IF st.is_first THEN collapse_margins(0, c) ELSE c

\* The rects of a leaf block when it returns: the None it starts with, or
\* what place_paragraphs pushed for the one it popped (one a page; never
\* none).
block_rects(node) ==
    IF node.inlines = <<>> THEN <<None>> ELSE <<Some(node.offset)>>

\* The margin of the ChildArtifact: top and bottom collapse together when
\* rects is empty.
artifact_margin(node, ignore_css, st) ==
    IF block_rects(node) = <<>>
    THEN [top |-> 0,
          bottom |-> collapse_margins(
                         specified_margin(node, ignore_css).bottom,
                         top_margin(node, ignore_css, st))]
    ELSE [top |-> top_margin(node, ignore_css, st),
          bottom |-> specified_margin(node, ignore_css).bottom]

\* build_display_list_rec on a block child of body: [dl, y] after it.
build_display_list_rec(node, ignore_css, st, m) ==
    IF node.inlines = <<>>
    THEN IF node.id # ""
         THEN [st EXCEPT !.dl[Len(st.dl)] =
                  Append(@, Cmd("Marker", m.start_offset + node.offset))]
         ELSE st
    ELSE place_paragraphs(node.inlines, top_margin(node, ignore_css, st),
                          node.per_line,
                          IF node.id # "" THEN <<node.offset>> ELSE <<>>,
                          st, m)

\* inner_loop_context after a child: r is what the child returned, bottom
\* the bottom margin of its ChildArtifact.
sibling_hand_over(r, bottom) ==
    [dl |-> r.dl, y |-> r.y, sibling_bottom |-> bottom, is_first |-> FALSE]

\* The loop of build_display_list_rec(body) over its block children.
RECURSIVE build_children(_, _, _, _)
build_children(children, ignore_css, st, m) ==
    IF children = <<>> THEN st
    ELSE build_children(
             Tail(children), ignore_css,
             sibling_hand_over(
                 build_display_list_rec(Head(children), ignore_css, st, m),
                 artifact_margin(Head(children), ignore_css, st).bottom),
             m)

\* draw_state and the loop context when the children of body are laid out.
body_start(m) ==
    [dl |-> <<<<>>>>, y |-> m.min_y, sibling_bottom |-> 0, is_first |-> TRUE]

RECURSIVE Sum(_)
Sum(ws) == IF ws = <<>> THEN 0 ELSE Head(ws) + Sum(Tail(ws))

\* draw_state.column_widths as the first tr of a table computes it from the
\* minimum and maximum widths of the probe pass (the quotients are f32 in
\* the code, rounded half away from zero).
column_widths(width, min_column_widths, max_column_widths) ==
    LET min_row_width == Sum(min_column_widths)
        max_row_width == Sum(max_column_widths)
    IN IF min_row_width >= width
       THEN [i \in 1..Len(min_column_widths) |->
                DivRound(min_column_widths[i] * width, min_row_width)]
       ELSE IF max_row_width <= width THEN max_column_widths
       ELSE [i \in 1..Len(min_column_widths) |->
                min_column_widths[i]
                + DivRound((max_column_widths[i] - min_column_widths[i])
                               * (width - min_row_width),
                           max_row_width - min_row_width)]

\* The emission loop of a tr over its cells [colspan, nested]: nested is
\* Some(the column widths a table inside the cell leaves in draw_state).
\* The result is [abort, laid]: whether the slice
\* column_widths[index..index+colspan] was out of range, and the widths of
\* the cells laid out; the cells after a break are skipped.
RECURSIVE emit_cells(_, _, _)
emit_cells(widths, cells, index) ==
    IF cells = <<>> \/ index >= Len(widths)
    THEN [abort |-> FALSE, laid |-> <<>>]
    ELSE IF index + Head(cells).colspan > Len(widths)
    THEN [abort |-> TRUE, laid |-> <<>>]
    ELSE [abort |->
              emit_cells(IF IsSome(Head(cells).nested)
                         THEN Unwrap(Head(cells).nested) ELSE widths,
                         Tail(cells), index + Head(cells).colspan).abort,
          laid |->
              <<Sum(SubSeq(widths, index + 1, index + Head(cells).colspan))>>
              \o emit_cells(IF IsSome(Head(cells).nested)
                            THEN Unwrap(Head(cells).nested) ELSE widths,
                            Tail(cells), index + Head(cells).colspan).laid]

\* The line-breaking stages of place_paragraphs.  fits is what the
\* paragraph breaker answers at each stage, were it asked: TRUE for some
\* breakpoints.  The chain is [bps, ran, hyphens]: the breakpoints held
\* (None, or Some(the stage they come from)), the stages run so far, and
\* whether penalties of the width of a hyphen were inserted.
breakpoints(fits, stage) == IF fits[stage] THEN Some(stage) ELSE None

total_fit_stage(fits) ==
    [bps |-> breakpoints(fits, "total_fit"), ran |-> <<"total_fit">>,
     hyphens |-> FALSE]

\* insert_breaks gets a dictionary only for Justify and a language that has
\* patterns; without one its penalties have width 0.
insert_breaks_stage(c, align, patterns, fits) ==
    IF c.bps = None
    THEN [bps |-> breakpoints(fits, "insert_breaks"),
          ran |-> Append(c.ran, "insert_breaks"),
          hyphens |-> align = "Justify" /\ patterns]
    ELSE c

\* standard_fit run whatever the earlier stages returned.
standard_fit_stage_unguarded(c, fits) ==
    [c EXCEPT !.bps = breakpoints(fits, "standard_fit"),
              !.ran = Append(@, "standard_fit")]

standard_fit_stage(c, fits) ==
    IF c.bps = None
    THEN [c EXCEPT !.bps = breakpoints(fits, "standard_fit"),
                   !.ran = Append(@, "standard_fit")]
    ELSE c

crop_stage(c, fits) ==
    IF c.bps = None
    THEN [c EXCEPT !.bps = breakpoints(fits, "crop"),
                   !.ran = Append(@, "crop")]
    ELSE c

fit_chain(align, patterns, fits) ==
    crop_stage(
        standard_fit_stage(
            insert_breaks_stage(total_fit_stage(fits), align, patterns, fits),
            fits),
        fits)

\* One glue of a line.  Widths that are not integers are numerators over
\* den: the ratio of the line, the exact width of the glue and epsilon.
\* The glue is placed at the floor of its exact width when epsilon is not
\* negative, at the ceiling when it is.
CeilDiv(n, den) == 0 - ((0 - n) \div den)

\* The glue placed at the floor of its exact width whatever epsilon is.
place_glue_floor(glue, ratio, den, line) ==
    LET exact_width == glue.width * den
                       + ratio * (IF ratio >= 0 THEN glue.stretch
                                  ELSE glue.shrink)
    IN [x |-> line.x + exact_width \div den,
        exact_x |-> line.exact_x + exact_width,
        epsilon |-> line.epsilon + (exact_width \div den) * den - exact_width]

place_glue(glue, ratio, den, line) ==
    LET amplitude == IF ratio >= 0 THEN glue.stretch ELSE glue.shrink
        exact_width == glue.width * den + ratio * amplitude
        approx_width == IF line.epsilon >= 0 THEN exact_width \div den
                        ELSE CeilDiv(exact_width, den)
    IN [x |-> line.x + approx_width,
        exact_x |-> line.exact_x + exact_width,
        epsilon |-> line.epsilon + approx_width * den - exact_width]

\* The glues of a line one after the other: the line after each of them.
RECURSIVE place_glues(_, _, _, _)
place_glues(glues, ratio, den, line) ==
    IF glues = <<>> THEN <<>>
    ELSE <<place_glue(Head(glues), ratio, den, line)>>
         \o place_glues(Tail(glues), ratio, den,
                        place_glue(Head(glues), ratio, den, line))

\* display_list.retain(|page| !page.is_empty())
\* text[index..].find(ch): how far after index the first ch is.
find(text, index, ch) ==
    LET hits == {k \in index..(Len(text) - 1) : text[k + 1] = ch}
    IN IF hits = {} THEN None
       ELSE Some((CHOOSE k \in hits : \A j \in hits : k <= j) - index)

\* A TextMaterial of the bytes start..end of a node's text (end excluded);
\* decoded tells that its text went through decode_entities.
TextMaterial(offset, start, end, decoded) ==
    [offset |-> offset + start, start |-> start, end |-> end,
     decoded |-> decoded]

after_entity_on_semicolon(index, end_delta) == index + end_delta

after_entity(index, end_delta) == index + end_delta + 1

\* gather_inline_material on a Text node: the loop from index on.
RECURSIVE gather_inline_material(_, _, _, _)
gather_inline_material(offset, text, index, inlines) ==
    LET amp == find(text, index, "&")
        rest == IF index < Len(text)
                    THEN Append(inlines,
                                TextMaterial(offset, index, Len(text), FALSE))
                    ELSE inlines
    IN IF amp = None THEN rest
       ELSE LET start == index + Unwrap(amp)
                plain == IF Unwrap(amp) > 0
                            THEN Append(inlines,
                                        TextMaterial(offset, index, start,
                                                     FALSE))
                            ELSE inlines
                semi == find(text, start, ";")
            IN IF semi = None
                  THEN IF start < Len(text)
                          THEN Append(plain,
                                      TextMaterial(offset, start, Len(text),
                                                   FALSE))
                          ELSE plain
                  ELSE gather_inline_material(
                           offset, text, after_entity(start, Unwrap(semi)),
                           Append(plain,
                                  TextMaterial(offset, start,
                                               start + Unwrap(semi) + 1,
                                               TRUE)))

\* compute_column_widths, the update of one of the two width vectors for a
\* colspan = 1 cell at index: get_mut(index), or push when there is none.
record_width(widths, index, w) ==
    IF index < Len(widths)
        THEN [widths EXCEPT ![index + 1] = Max(@, w)]
        ELSE Append(widths, w)

\* compute_column_widths on a tr: its cells from index on.
RECURSIVE compute_row_widths(_, _, _)
compute_row_widths(cells, index, ds) ==
    IF cells = <<>> THEN ds
    ELSE LET c == Head(cells)
         IN compute_row_widths(
                Tail(cells), index + c.colspan,
                IF c.colspan = 1
                    THEN [min_column_widths |->
                              record_width(ds.min_column_widths, index,
                                           c.min_width),
                          max_column_widths |->
                              record_width(ds.max_column_widths, index,
                                           c.max_width)]
                    ELSE ds)

\* compute_column_widths on a table: its rows in order.
RECURSIVE compute_column_widths(_, _)
compute_column_widths(rows, ds) ==
    IF rows = <<>> THEN ds
    ELSE compute_column_widths(Tail(rows),
                               compute_row_widths(Head(rows), 0, ds))

\* A TocEntry; resolved is what resolve_location(entry.location) returns.
TocEntry(index, resolved, children) ==
    [index |-> index, resolved |-> resolved, children |-> children]

\* chapter_aux over entries of the current chunk: acc is
\* [chap_before, offset_before, chap_after, offset_after].
RECURSIVE chapter_aux(_, _, _, _)
chapter_aux(toc, start_offset, next_offset, acc) ==
    IF toc = <<>> THEN acc
    ELSE LET entry == Head(toc)
             eo == Unwrap(entry.resolved)
             before ==
                 IF /\ entry.resolved # None
                    /\ eo < start_offset
                    /\ (acc.chap_before = None \/ eo > acc.offset_before)
                     THEN [acc EXCEPT !.chap_before = Some(entry),
                                      !.offset_before = eo]
                     ELSE acc
             after ==
                 IF /\ entry.resolved # None
                    /\ eo >= start_offset
                    /\ eo < next_offset
                    /\ (before.chap_after = None \/ eo < before.offset_after)
                     THEN [before EXCEPT !.chap_after = Some(entry),
                                         !.offset_after = eo]
                     ELSE before
         IN chapter_aux(Tail(toc), start_offset, next_offset,
                        chapter_aux(entry.children, start_offset,
                                    next_offset, after))

\* chapter in the first chunk of the spine, every entry pointing into it.
chapter(start_offset, next_offset, toc) ==
    LET acc == chapter_aux(toc, start_offset, next_offset,
                           [chap_before |-> None, offset_before |-> 0,
                            chap_after |-> None, offset_after |-> 0])
    IN IF acc.chap_after # None THEN acc.chap_after ELSE acc.chap_before

\* Whether the loop body looks at the entry's offset, and accepts it.
looks_at(chap, entry, forward) ==
    IF chap = None THEN TRUE
    ELSE IF forward THEN entry.index > Unwrap(chap).index
         ELSE entry.index < Unwrap(chap).index

accepts(chap, entry_offset, start_offset, end_offset, forward) ==
    IF chap # None
        THEN entry_offset < start_offset \/ entry_offset >= end_offset
        ELSE IF forward THEN entry_offset >= end_offset
             ELSE entry_offset < start_offset

\* next_chapter: the `?` on resolve_location returns None from the call.
RECURSIVE next_chapter(_, _, _, _)
next_chapter(chap, start_offset, end_offset, toc) ==
    IF toc = <<>> THEN None
    ELSE LET entry == Head(toc)
         IN IF looks_at(chap, entry, TRUE) /\ entry.resolved = None
                THEN None
            ELSE IF /\ looks_at(chap, entry, TRUE)
                    /\ accepts(chap, Unwrap(entry.resolved), start_offset,
                               end_offset, TRUE)
                THEN Some(entry)
            ELSE IF next_chapter(chap, start_offset, end_offset,
                                 entry.children) # None
                THEN next_chapter(chap, start_offset, end_offset,
                                  entry.children)
            ELSE next_chapter(chap, start_offset, end_offset, Tail(toc))

\* previous_chapter: the entries from the last, the children first.
RECURSIVE previous_chapter(_, _, _, _)
previous_chapter(chap, start_offset, end_offset, toc) ==
    IF toc = <<>> THEN None
    ELSE LET entry == toc[Len(toc)]
         IN IF previous_chapter(chap, start_offset, end_offset,
                                entry.children) # None
                THEN previous_chapter(chap, start_offset, end_offset,
                                      entry.children)
            ELSE IF looks_at(chap, entry, FALSE) /\ entry.resolved = None
                THEN None
            ELSE IF /\ looks_at(chap, entry, FALSE)
                    /\ accepts(chap, Unwrap(entry.resolved), start_offset,
                               end_offset, FALSE)
                THEN Some(entry)
            ELSE previous_chapter(chap, start_offset, end_offset,
                                  SubSeq(toc, 1, Len(toc) - 1))

\* chapter_relative; next_offset is resolve_location(Next(offset)).
chapter_relative(start_offset, next_offset, dir, toc) ==
    IF dir = "Previous"
        THEN previous_chapter(chapter(start_offset, next_offset, toc),
                              start_offset, next_offset, toc)
        ELSE next_chapter(chapter(start_offset, next_offset, toc),
                          start_offset, next_offset, toc)

RECURSIVE retain_non_empty(_)
retain_non_empty(dl) ==
    IF dl = <<>> THEN <<>>
    ELSE IF Head(dl) = <<>> THEN retain_non_empty(Tail(dl))
         ELSE <<Head(dl)>> \o retain_non_empty(Tail(dl))

\* The vertical metrics of a layout under the settings of engine e.  The
\* split of the line height is taken from the font in place_paragraphs,
\* which is not reached without fonts (unwrap_fonts_panics below).
Metrics(e, start_offset) ==
    LET lh == pt_to_px(e.line_height * e.font_size, e.dpi)
        family == IF e.fonts = None THEN DefaultSerif ELSE Unwrap(e.fonts).serif
        top == (lh * Ascender(family)) \div (Ascender(family) - Descender(family))
    IN [start_offset |-> start_offset,
        min_y |-> e.margin,
        max_y |-> e.dims[2] - e.margin,
        line_height |-> lh,
        space_top |-> top,
        space_bottom |-> lh - top]

\* if display_list.is_empty() { push(vec![Marker(off)]) }
or_sentinel(display_list, off) ==
    IF display_list = <<>> THEN <<<<Cmd("Marker", off)>>>> ELSE display_list

build_display_list(e, index, start_offset) ==
    LET doc == Archive[e.spine[index + 1].path]
        m == Metrics(e, start_offset)
    IN IF ~(doc.readable /\ doc.has_body) THEN <<>>
       ELSE or_sentinel(
                retain_non_empty(
                    build_children(doc.paras, e.ignore_document_css,
                                   body_start(m), m).dl),
                start_offset + doc.body_offset)

-----------------------------------------------------------------------------
(* The engine.  Its operations are operators on the record e of the        *)
(* engine's fields; a query returns [doc, ret]: the engine after the call  *)
(* (a query fills the cache and loads the fonts) and the value returned.   *)
(* A return value is [tag, val, items]: tag "some" with the offset val     *)
(* (and, for words, links, images and pixmap, the offsets of the commands  *)
(* returned), "none", "unit" for a setter, or "abort" when the call        *)
(* panics.                                                                 *)

RNone == [tag |-> "none", val |-> 0, items |-> <<>>]
RSome(v) == [tag |-> "some", val |-> v, items |-> <<>>]
RPage(its, v) == [tag |-> "some", val |-> v, items |-> its]
RUnit == [tag |-> "unit", val |-> 0, items |-> <<>>]
RAbort == [tag |-> "abort", val |-> 0, items |-> <<>>]

OptRet(o) == IF IsSome(o) THEN RSome(Unwrap(o)) ELSE RNone

EmptyCache == [i \in {} |-> <<>>]
Insert(c, k, v) == [i \in (DOMAIN c) \cup {k} |-> IF i = k THEN v ELSE c[i]]

\* page.first().map(|dc| dc.offset())
first_offset(page) == IF page = <<>> THEN None ELSE Some(page[1].offset)

offset(e, index) == SumSizes(e.spine, index)

size(e) == offset(e, Len(e.spine))

pages_count(e) == SumSizes(e.spine, Len(e.spine))

\* vertebra_coordinates_with with the test offset <= end_offset.
RECURSIVE vertebra_coordinates_with_inclusive(_, _, _, _, _)
vertebra_coordinates_with_inclusive(e, by_name, key, index, start_offset) ==
    IF index >= Len(e.spine) THEN None
    ELSE LET end_offset == start_offset + e.spine[index + 1].size
             test == IF by_name THEN e.spine[index + 1].path = key
                     ELSE key <= end_offset
         IN IF test THEN Some(<<index, start_offset>>)
            ELSE vertebra_coordinates_with_inclusive(e, by_name, key,
                                                     index + 1, end_offset)

\* vertebra_coordinates_with: the test is offset < end_offset
\* (vertebra_coordinates) or spine[index].path == name (.._from_name).
RECURSIVE vertebra_coordinates_with(_, _, _, _, _)
vertebra_coordinates_with(e, by_name, key, index, start_offset) ==
    IF index >= Len(e.spine) THEN None
    ELSE LET end_offset == start_offset + e.spine[index + 1].size
             test == IF by_name THEN e.spine[index + 1].path = key
                     ELSE key < end_offset
         IN IF test THEN Some(<<index, start_offset>>)
            ELSE vertebra_coordinates_with(e, by_name, key, index + 1,
                                           end_offset)

vertebra_coordinates(e, off) == vertebra_coordinates_with(e, FALSE, off, 0, 0)

vertebra_coordinates_from_name(e, name) ==
    vertebra_coordinates_with(e, TRUE, name, 0, 0)

\* if !self.cache.contains_key(&index) { build and insert }
fill_cache(e, index, start_offset) ==
    IF index \in DOMAIN e.cache THEN e
    ELSE [e EXCEPT !.cache =
             Insert(@, index, build_display_list(e, index, start_offset))]

\* The for loop of page_index over 1..len-1.
RECURSIVE page_scan(_, _, _)
page_scan(display_list, off, i) ==
    IF i >= Len(display_list) - 1 THEN 0
    ELSE IF /\ display_list[i + 1] # <<>>
            /\ off >= display_list[i + 1][1].offset
            /\ display_list[i + 2] # <<>>
            /\ off < display_list[i + 2][1].offset
         THEN i
         ELSE page_scan(display_list, off, i + 1)

\* The closure of page_index on the cached display list.
page_of(display_list, off) ==
    LET n == Len(display_list)
    IN IF n < 2 \/ (display_list[2] # <<>> /\ off < display_list[2][1].offset)
       THEN 0
       ELSE IF display_list[n] # <<>> /\ off >= display_list[n][1].offset
            THEN n - 1
            ELSE page_scan(display_list, off, 1)

\* page_index: [doc, index]; the Option it returns is never None.  e1 is
\* the engine once the chunk is in the cache.
page_index_cached(e1, off, index) ==
    [doc |-> e1, index |-> page_of(e1.cache[index], off), panic |-> FALSE]

\* self.fonts.as_mut().unwrap() at the head of place_paragraphs: building
\* chunk index panics when the fonts are None and a block of the chunk has
\* inline material.
unwrap_fonts_panics(e, index) ==
    LET doc == Archive[e.spine[index + 1].path]
    IN /\ index \notin DOMAIN e.cache
       /\ e.fonts = None
       /\ doc.readable
       /\ doc.has_body
       /\ \E k \in 1..Len(doc.paras) : doc.paras[k].inlines # <<>>

page_index(e, off, index, start_offset) ==
    IF unwrap_fonts_panics(e, index)
    THEN [doc |-> e, index |-> 0, panic |-> TRUE]
    ELSE page_index_cached(fill_cache(e, index, start_offset), off, index)

\* display_list[page_index].first().map(|dc| dc.offset()), pi being what
\* page_index returned for chunk index: the indexing panics when the list
\* has no such page.
first_of_page(pi, index) ==
    IF pi.panic \/ pi.index >= Len(pi.doc.cache[index])
    THEN [doc |-> pi.doc, ret |-> RAbort]
    ELSE [doc |-> pi.doc,
          ret |-> OptRet(first_offset(pi.doc.cache[index][pi.index + 1]))]

\* cache_uris over the parsed chunk: <<id, local offset>> of every element
\* carrying an id, in document order.
RECURSIVE para_ids(_)
para_ids(paras) ==
    IF paras = <<>> THEN <<>>
    ELSE (IF Head(paras).id # "" THEN <<<<Head(paras).id, Head(paras).offset>>>>
          ELSE <<>>) \o para_ids(Tail(paras))

\* The UriCache after cache_uris, looked up at name#id: a later insert of
\* the same key replaces the earlier one.
RECURSIVE lookup_id(_, _, _)
lookup_id(ids, id, start_offset) ==
    IF ids = <<>> THEN None
    ELSE LET last == ids[Len(ids)]
         IN IF last[1] = id THEN Some(start_offset + last[2])
            ELSE lookup_id(SubSeq(ids, 1, Len(ids) - 1), id, start_offset)

cache_uris(doc, id, start_offset) ==
    lookup_id(doc.root_ids \o para_ids(doc.paras), id, start_offset)

\* A URI is [path, frag]: frag is None, or Some(id) for path#id.
Uri(p, f) == [path |-> p, frag |-> f]

resolve_link(e, uri) ==
    LET vc == vertebra_coordinates_from_name(e, uri.path)
    IN IF vc = None THEN [doc |-> e, ret |-> RNone]
       ELSE IF IsSome(uri.frag)
            THEN IF ~Archive[uri.path].readable
                 THEN [doc |-> e, ret |-> RNone]
                 ELSE [doc |-> e,
                       ret |-> OptRet(cache_uris(Archive[uri.path],
                                                 Unwrap(uri.frag), vc[1][2]))]
            ELSE first_of_page(page_index(e, vc[1][2], vc[1][1], vc[1][2]),
                               vc[1][1])

\* default_fonts().ok(): None when a bundled font file cannot be opened.
default_fonts == IF font_files THEN Some([serif |-> DefaultSerif]) ELSE None

\* A location is [kind, offset, uri].
Loc(k, o, u) == [kind |-> k, offset |-> o, uri |-> u]
NoUri == Uri("", None)
Exact(o) == Loc("Exact", o, NoUri)
Previous(o) == Loc("Previous", o, NoUri)
NextLoc(o) == Loc("Next", o, NoUri)
UriLoc(u) == Loc("Uri", 0, u)
LocalUri(o, u) == Loc("LocalUri", o, u)

resolve_exact(e, off) ==
    LET vc == vertebra_coordinates(e, off)
    IN IF vc = None THEN [doc |-> e, ret |-> RNone]
       ELSE first_of_page(page_index(e, off, vc[1][1], vc[1][2]), vc[1][1])

\* display_list.last().and_then(|page| page.first()) on chunk index of e2.
first_of_last_page(e2, index) ==
    [doc |-> e2,
     ret |-> IF e2.cache[index] = <<>> THEN RNone
             ELSE OptRet(first_offset(
                             e2.cache[index][Len(e2.cache[index])]))]

\* Location::Previous after page_index returned pi for chunk index.
previous_page(pi, index, start_offset) ==
    IF pi.panic THEN [doc |-> pi.doc, ret |-> RAbort]
    ELSE IF pi.index > 0
    THEN [doc |-> pi.doc,
          ret |-> OptRet(first_offset(pi.doc.cache[index][pi.index]))]
    ELSE IF index = 0 THEN [doc |-> pi.doc, ret |-> RNone]
    ELSE IF unwrap_fonts_panics(pi.doc, index - 1)
    THEN [doc |-> pi.doc, ret |-> RAbort]
    ELSE first_of_last_page(
             fill_cache(pi.doc, index - 1,
                        start_offset - pi.doc.spine[index].size),
             index - 1)

resolve_previous(e, off) ==
    LET vc == vertebra_coordinates(e, off)
    IN IF vc = None THEN [doc |-> e, ret |-> RNone]
       ELSE previous_page(page_index(e, off, vc[1][1], vc[1][2]),
                          vc[1][1], vc[1][2])

\* display_list.first().and_then(|page| page.first()) on chunk index of e2.
first_of_first_page(e2, index) ==
    [doc |-> e2,
     ret |-> IF e2.cache[index] = <<>> THEN RNone
             ELSE OptRet(first_offset(e2.cache[index][1]))]

\* Location::Next after page_index returned pi for chunk index.  On a list
\* with no page, len() - 1 on usize either panics on the overflow or wraps
\* around, and then display_list[1] is out of bounds: the call aborts.
next_page(pi, index, start_offset) ==
    IF pi.panic \/ Len(pi.doc.cache[index]) = 0
    THEN [doc |-> pi.doc, ret |-> RAbort]
    ELSE IF pi.index < Len(pi.doc.cache[index]) - 1
    THEN [doc |-> pi.doc,
          ret |-> OptRet(first_offset(pi.doc.cache[index][pi.index + 2]))]
    ELSE IF index = Len(pi.doc.spine) - 1
    THEN [doc |-> pi.doc, ret |-> RNone]
    ELSE IF unwrap_fonts_panics(pi.doc, index + 1)
    THEN [doc |-> pi.doc, ret |-> RAbort]
    ELSE first_of_first_page(
             fill_cache(pi.doc, index + 1,
                        start_offset + pi.doc.spine[index + 1].size),
             index + 1)

resolve_next(e, off) ==
    LET vc == vertebra_coordinates(e, off)
    IN IF vc = None THEN [doc |-> e, ret |-> RNone]
       ELSE next_page(page_index(e, off, vc[1][1], vc[1][2]),
                      vc[1][1], vc[1][2])

resolve_local_uri(e, off, uri) ==
    LET vc == vertebra_coordinates(e, off)
    IN IF vc = None THEN [doc |-> e, ret |-> RNone]
       ELSE LET path == e.spine[vc[1][1] + 1].path
            IN resolve_link(e, IF uri.path = "" /\ IsSome(uri.frag)
                               THEN Uri(path, uri.frag) ELSE uri)

resolve_location(e, loc) ==
    LET e0 == IF e.fonts = None THEN [e EXCEPT !.fonts = default_fonts] ELSE e
    IN CASE loc.kind = "Exact" -> resolve_exact(e0, loc.offset)
         [] loc.kind = "Previous" -> resolve_previous(e0, loc.offset)
         [] loc.kind = "Next" -> resolve_next(e0, loc.offset)
         [] loc.kind = "LocalUri" -> resolve_local_uri(e0, loc.offset, loc.uri)
         [] loc.kind = "Uri" -> resolve_link(e0, loc.uri)

\* The offsets of the commands of a page that a content query returns.
RECURSIVE select_kind(_, _)
select_kind(page, kinds) ==
    IF page = <<>> THEN <<>>
    ELSE (IF Head(page).kind \in kinds THEN <<Head(page).offset>> ELSE <<>>)
         \o select_kind(Tail(page), kinds)

\* The commands of page pi.index of chunk index: missing is what the call
\* does when the list has no such page.
page_commands(pi, index, off, kinds, missing) ==
    IF pi.panic THEN [doc |-> pi.doc, ret |-> RAbort]
    ELSE IF pi.index >= Len(pi.doc.cache[index])
    THEN [doc |-> pi.doc, ret |-> missing]
    ELSE [doc |-> pi.doc,
          ret |-> RPage(select_kind(pi.doc.cache[index][pi.index + 1], kinds),
                        off)]

\* What words, links, images and pixmap do with r, the engine and the value
\* resolve_location returned: vertebra_coordinates(offset)?, page_index,
\* then the page.
page_content(r, kinds, missing) ==
    IF r.ret.tag # "some" THEN r
    ELSE LET vc == vertebra_coordinates(r.doc, r.ret.val)
         IN IF vc = None THEN [doc |-> r.doc, ret |-> RNone]
            ELSE page_commands(page_index(r.doc, r.ret.val, vc[1][1],
                                          vc[1][2]),
                               vc[1][1], r.ret.val, kinds, missing)

\* words, links and images: display_list[page_index] (a panic when the page
\* is missing) filtered by kind (no command of the archive carries a uri,
\* so links keeps none).
page_query(e, loc, kinds) ==
    page_content(resolve_location(e, loc), kinds, RAbort)

words(e, loc) == page_query(e, loc, {"Text"})

links(e, loc) == page_query(e, loc, {})

images(e, loc) == page_query(e, loc, {"Image"})

\* pixmap: cache.get(&index)?.get(page_index)? and render_page, which
\* draws the Text and Image commands.
pixmap(e, loc) ==
    page_content(resolve_location(e, loc), {"Text", "Image"}, RNone)

\* layout without self.cache.clear().
layout_keeps_cache(e, width, height, fs, d) ==
    [e EXCEPT !.dims = <<width, height>>, !.dpi = d, !.font_size = fs]

\* The setters.
layout(e, width, height, fs, d) ==
    [e EXCEPT !.dims = <<width, height>>, !.dpi = d, !.font_size = fs,
              !.cache = EmptyCache]

\* set_text_align without self.cache.clear().
set_text_align_keeps_cache(e, align) ==
    [e EXCEPT !.text_align = align]

set_text_align(e, align) ==
    [e EXCEPT !.text_align = align, !.cache = EmptyCache]

set_font_family(e, family_name) ==
    IF family_name \in LoadableFamilies
    THEN LET e1 == IF e.fonts = None THEN [e EXCEPT !.fonts = default_fonts]
                   ELSE e
         IN IF IsSome(e1.fonts)
            THEN [e1 EXCEPT !.fonts = Some([serif |-> family_name]),
                            !.cache = EmptyCache]
            ELSE e1
    ELSE e

\* set_margin_width with the guard width > 0 instead of width >= 0.
set_margin_width_rejects_zero(e, width) ==
    IF width > 0 /\ width <= 10
    THEN [e EXCEPT !.margin = mm_to_px(10 * width, e.dpi),
                   !.cache = EmptyCache]
    ELSE e

set_margin_width(e, width) ==
    IF width >= 0 /\ width <= 10
    THEN [e EXCEPT !.margin = mm_to_px(10 * width, e.dpi),
                   !.cache = EmptyCache]
    ELSE e

set_line_height(e, lh) ==
    [e EXCEPT !.line_height = lh, !.cache = EmptyCache]

set_margin(e, edge) ==
    [e EXCEPT !.margin = edge, !.cache = EmptyCache]

set_font_size(e, fs) ==
    [e EXCEPT !.font_size = fs, !.cache = EmptyCache]

\* set_ignore_document_css without self.cache.clear().
set_ignore_document_css_keeps_cache(e, value) ==
    IF e.ignore_document_css # value
    THEN [e EXCEPT !.ignore_document_css = value]
    ELSE e

set_ignore_document_css(e, value) ==
    IF e.ignore_document_css # value
    THEN [e EXCEPT !.ignore_document_css = value, !.cache = EmptyCache]
    ELSE e

-----------------------------------------------------------------------------
(* The state machine: the engine after EpubDocument::new on one of the     *)
(* books, then any sequence of calls.  A call that panics ends the run.    *)

Self ==
    [spine |-> spine, cache |-> cache, fonts |-> fonts,
     ignore_document_css |-> ignore_document_css, margin |-> margin,
     font_size |-> font_size, text_align |-> text_align,
     line_height |-> line_height, dims |-> dims, dpi |-> dpi]

Store(e) ==
    /\ spine' = e.spine
    /\ cache' = e.cache
    /\ fonts' = e.fonts
    /\ ignore_document_css' = e.ignore_document_css
    /\ margin' = e.margin
    /\ font_size' = e.font_size
    /\ text_align' = e.text_align
    /\ line_height' = e.line_height
    /\ dims' = e.dims
    /\ dpi' = e.dpi
    /\ UNCHANGED <<font_files, probe, presets_list, input, framebuffer>>

\* EpubDocument::new: the spine as read from the package, default settings.
new(book) ==
    [spine |-> [i \in 1..Len(book) |->
                   [path |-> book[i], size |-> Archive[book[i]].size]],
     cache |-> EmptyCache,
     fonts |-> None,
     ignore_document_css |-> FALSE,
     margin |-> mm_to_px(DEFAULT_MARGIN_WIDTH, DEFAULT_DPI),
     font_size |-> DEFAULT_FONT_SIZE,
     text_align |-> DEFAULT_TEXT_ALIGN,
     line_height |-> DEFAULT_LINE_HEIGHT,
     dims |-> <<DEFAULT_WIDTH, DEFAULT_HEIGHT>>,
     dpi |-> DEFAULT_DPI]

\* Bounds of the calls.
Overshoot == 1
SmallWidth == 400
SmallHeight == 300

\* The arguments the calls are made with.
Offsets(e) == 0..(size(e) + Overshoot - 1)
Frags == {None, Some("p1"), Some("p3"), Some("cover"), Some("nope")}
UriPaths(e) == {e.spine[i].path : i \in 1..Len(e.spine)} \cup {"missing"}
Uris(e) == {Uri(p, f) : p \in UriPaths(e), f \in Frags}
LocalUris == {Uri("", Some("p1")), Uri("", Some("nope")), Uri("float", None)}
ChunkStarts(e) == {offset(e, i) : i \in 0..Len(e.spine)}
Locs(e) ==
    {Exact(o) : o \in Offsets(e)} \cup {Previous(o) : o \in Offsets(e)}
    \cup {NextLoc(o) : o \in Offsets(e)} \cup {UriLoc(u) : u \in Uris(e)}
    \cup {LocalUri(o, u) : o \in ChunkStarts(e), u \in LocalUris}
\* The locations the page content is asked for.
PageLocs(e) ==
    {Exact(o) : o \in ChunkStarts(e)}
    \cup {UriLoc(Uri(e.spine[Len(e.spine)].path, f)) :
             f \in {None, Some("cover")}}

LayoutArgs ==
    {<<DEFAULT_WIDTH, DEFAULT_HEIGHT, DEFAULT_FONT_SIZE, DEFAULT_DPI>>,
     <<SmallWidth, SmallHeight, DEFAULT_FONT_SIZE, DEFAULT_DPI>>}
TextAligns == {DEFAULT_TEXT_ALIGN}
FamilyNames == {"Bitter", "Missing"}
MarginWidths == {10, 11}
LineHeights == {DEFAULT_LINE_HEIGHT}
Edges == {mm_to_px(DEFAULT_MARGIN_WIDTH, DEFAULT_DPI)}
FontSizes == {DEFAULT_FONT_SIZE}

Running == ret.tag # "abort"

\* No layout step is taken alone while the engine is driven by its calls.
NoProbe == [fn |-> "none", arg |-> <<>>, out |-> <<>>]

\* The engine after new on one of books; ff tells whether the bundled fonts
\* can be opened.
Constructed(books, ff) ==
    /\ \E book \in books :
          /\ spine = new(book).spine
          /\ cache = new(book).cache
          /\ fonts = new(book).fonts
          /\ ignore_document_css = new(book).ignore_document_css
          /\ margin = new(book).margin
          /\ font_size = new(book).font_size
          /\ text_align = new(book).text_align
          /\ line_height = new(book).line_height
          /\ dims = new(book).dims
          /\ dpi = new(book).dpi
    /\ op = "new"
    /\ ret = RUnit
    /\ font_files = ff

\* The views, the input thread and the framebuffer are not part of the
\* engine: where the engine is driven they are absent.
Absent == [absent |-> TRUE]
NoDevices ==
    /\ presets_list = Absent
    /\ input = Absent
    /\ framebuffer = Absent

Opened(ff) == Constructed(Books, ff) /\ probe = NoProbe /\ NoDevices

Init == Opened(TRUE)

Query(name, r) ==
    /\ Store(r.doc)
    /\ op' = name
    /\ ret' = r.ret

Setter(name, e) ==
    /\ Store(e)
    /\ op' = name
    /\ ret' = RUnit

CallResolveLocation ==
    /\ Running
    /\ \E loc \in Locs(Self) :
          Query("resolve_location", resolve_location(Self, loc))

CallWords ==
    /\ Running
    /\ \E loc \in PageLocs(Self) : Query("words", words(Self, loc))

CallLinks ==
    /\ Running
    /\ \E loc \in PageLocs(Self) : Query("links", links(Self, loc))

CallImages ==
    /\ Running
    /\ \E loc \in PageLocs(Self) : Query("images", images(Self, loc))

CallPixmap ==
    /\ Running
    /\ \E loc \in PageLocs(Self) : Query("pixmap", pixmap(Self, loc))

CallLayout ==
    /\ Running
    /\ \E a \in LayoutArgs :
          Setter("layout", layout(Self, a[1], a[2], a[3], a[4]))

CallSetTextAlign ==
    /\ Running
    /\ \E a \in TextAligns : Setter("set_text_align", set_text_align(Self, a))

CallSetFontFamily ==
    /\ Running
    /\ \E f \in FamilyNames :
          Setter("set_font_family", set_font_family(Self, f))

CallSetMarginWidth ==
    /\ Running
    /\ \E w \in MarginWidths :
          Setter("set_margin_width", set_margin_width(Self, w))

CallSetLineHeight ==
    /\ Running
    /\ \E h \in LineHeights :
          Setter("set_line_height", set_line_height(Self, h))

CallSetMargin ==
    /\ Running
    /\ \E m \in Edges : Setter("set_margin", set_margin(Self, m))

CallSetFontSize ==
    /\ Running
    /\ \E s \in FontSizes : Setter("set_font_size", set_font_size(Self, s))

CallSetIgnoreDocumentCss ==
    /\ Running
    /\ \E v \in BOOLEAN :
          Setter("set_ignore_document_css", set_ignore_document_css(Self, v))

Next ==
    \/ CallResolveLocation
    \/ CallWords
    \/ CallLinks
    \/ CallImages
    \/ CallPixmap
    \/ CallLayout
    \/ CallSetTextAlign
    \/ CallSetFontFamily
    \/ CallSetMarginWidth
    \/ CallSetLineHeight
    \/ CallSetMargin
    \/ CallSetFontSize
    \/ CallSetIgnoreDocumentCss

Spec == Init /\ [][Next]_vars

\* The same calls on an installation whose fonts directory is missing.
InitNoFonts == Opened(FALSE)

SpecNoFonts == InitNoFonts /\ [][Next]_vars

-----------------------------------------------------------------------------
(* The steps of the layout taken alone: probe is [fn, arg, out], an input  *)
(* drawn from a bounded set and then the step fn applied to it.  The       *)
(* engine is the one just constructed and stays as it is.                  *)

EngineVars ==
    <<spine, cache, fonts, ignore_document_css, margin, font_size,
      text_align, line_height, dims, dpi, op, ret, font_files>>

Input(a) == [fn |-> "input", arg |-> a, out |-> <<>>]

Pending(kind) == probe.fn = "input" /\ probe.arg.kind = kind

Apply(name, result) ==
    /\ probe' = [fn |-> name, arg |-> probe.arg, out |-> result]
    /\ UNCHANGED EngineVars
    /\ UNCHANGED <<presets_list, input, framebuffer>>

\* Texts: 0 a space, 1 a one-byte character, 2 a two-byte character.
MaxTextLen == 3
Texts == UNION {[1..n -> {0, 1, 2}] : n \in 1..MaxTextLen}
TextInputs == {[kind |-> "text", offset |-> o, text |-> t] :
                  o \in {0, 3}, t \in Texts}

ApplyMakeParagraphItems ==
    /\ Pending("text")
    /\ Apply("make_paragraph_items",
             make_paragraph_items(
                 <<TextNode(probe.arg.offset, probe.arg.text)>>)[1])

\* Blocks with margins on a page of a given height.  The metrics are those
\* of the engine with its fonts loaded, the page k half lines high.
MaxMargin == 2
Margins == {10 * k : k \in (0 - MaxMargin)..MaxMargin}
MaxHalfLines == 6

Block(o, i, mt, mb, inl, n) ==
    [Para(o, i, mt, inl, n) EXCEPT !.margin_bottom = mb]

ProbeMetrics(k) ==
    LET m == Metrics([Self EXCEPT !.fonts = default_fonts], 0)
    IN [m EXCEPT !.max_y = m.min_y + (m.line_height * k) \div 2]

\* <p style="margin-bottom:b">a</p><p style="margin-top:t">a b c</p>, one
\* word a line.
TwoParagraphs(b, t) ==
    <<Block(2, "", 0, b, <<TextNode(3, <<1>>)>>, 1),
      Block(5, "", t, 0, <<TextNode(6, <<1, 0, 1, 0, 1>>)>>, 1)>>

BlockInputs ==
    {[kind |-> "blocks", bottom |-> b, top |-> t, height |-> k] :
        b \in Margins, t \in Margins, k \in 1..MaxHalfLines}

ApplyBuildChildren ==
    /\ Pending("blocks")
    /\ Apply("build_children",
             build_children(TwoParagraphs(probe.arg.bottom, probe.arg.top),
                            FALSE, body_start(ProbeMetrics(probe.arg.height)),
                            ProbeMetrics(probe.arg.height)))

\* <p style="margin-top:t;margin-bottom:b"></p> after a sibling without
\* bottom margin: what build_display_list_rec leaves and the margin of the
\* ChildArtifact it returns.
EmptyBlockInputs ==
    {[kind |-> "empty", top |-> t, bottom |-> b] :
        t \in Margins, b \in Margins}

AfterSibling == sibling_hand_over(body_start(ProbeMetrics(MaxHalfLines)), 0)

ApplyBuildDisplayListRec ==
    /\ Pending("empty")
    /\ Apply("build_display_list_rec",
             [st |-> build_display_list_rec(
                         Block(2, "", probe.arg.top, probe.arg.bottom, <<>>, 1),
                         FALSE, AfterSibling, ProbeMetrics(MaxHalfLines)),
              margin |-> artifact_margin(
                             Block(2, "", probe.arg.top, probe.arg.bottom,
                                   <<>>, 1),
                             FALSE, AfterSibling)])

\* Tables: the columns are <<minimum, maximum>> widths from the probe pass,
\* the band is the width the table is given.
MaxColumns == 2
MaxColumnWidth == 3
MaxBand == 6

ColumnRanges ==
    {c \in (1..MaxColumnWidth) \X (1..MaxColumnWidth) : c[1] <= c[2]}

ColumnInputs ==
    {[kind |-> "columns", width |-> w, columns |-> cs] :
        w \in 1..MaxBand,
        cs \in UNION {[1..n -> ColumnRanges] : n \in 1..MaxColumns}}

ApplyColumnWidths ==
    /\ Pending("columns")
    /\ Apply("column_widths",
             column_widths(probe.arg.width,
                           [i \in 1..Len(probe.arg.columns) |->
                               probe.arg.columns[i][1]],
                           [i \in 1..Len(probe.arg.columns) |->
                               probe.arg.columns[i][2]]))

\* Rows: n sized columns, cells with a colspan and possibly a table inside
\* (of one column).
MaxCells == 2
MaxColspan == 2

SizedColumns(n) == [i \in 1..n |-> 10 * i]

Cells ==
    [colspan : 0..MaxColspan, nested : {None, Some(SizedColumns(1))}]

RowInputs ==
    {[kind |-> "row", columns |-> n, cells |-> cs] :
        n \in 1..MaxColumns,
        cs \in UNION {[1..k -> Cells] : k \in 1..MaxCells}}

ApplyEmitCells ==
    /\ Pending("row")
    /\ Apply("emit_cells",
             emit_cells(SizedColumns(probe.arg.columns), probe.arg.cells, 0))

\* The fit chain: every alignment, with or without hyphenation patterns,
\* and every answer of the breaker.
Stages == {"total_fit", "insert_breaks", "standard_fit", "crop"}

FitInputs ==
    {[kind |-> "fit", align |-> a, patterns |-> h, fits |-> f] :
        a \in {"Justify", "Left", "Right", "Center"}, h \in BOOLEAN,
        f \in [Stages -> BOOLEAN]}

ApplyFitChain ==
    /\ Pending("fit")
    /\ Apply("fit_chain",
             fit_chain(probe.arg.align, probe.arg.patterns, probe.arg.fits))

\* Lines of glues: ratios are k / RatioDen for k in -MaxRatio..MaxRatio.
MaxGlues == 3
MaxRatio == 5
RatioDen == 4

Glues ==
    {[width |-> 1, stretch |-> 1, shrink |-> 1],
     [width |-> 2, stretch |-> 3, shrink |-> 1],
     [width |-> 1, stretch |-> 0, shrink |-> 0]}

GlueInputs ==
    {[kind |-> "glues", glues |-> g, ratio |-> r] :
        g \in UNION {[1..n -> Glues] : n \in 1..MaxGlues},
        r \in (0 - MaxRatio)..MaxRatio}

LineStart == [x |-> 0, exact_x |-> 0, epsilon |-> 0]

ApplyPlaceGlues ==
    /\ Pending("glues")
    /\ Apply("place_glues",
             place_glues(probe.arg.glues, probe.arg.ratio, RatioDen,
                         LineStart))

\* Text nodes with entities: bytes "a", "&" and ";".
MaxEntityTextLen == 5
EntityTexts == UNION {[1..n -> {"a", "&", ";"}] : n \in 1..MaxEntityTextLen}
EntityInputs ==
    {[kind |-> "entities", offset |-> o, text |-> t] :
        o \in {0, 3}, t \in EntityTexts}

ApplyGatherInlineMaterial ==
    /\ Pending("entities")
    /\ Apply("gather_inline_material",
             gather_inline_material(probe.arg.offset, probe.arg.text, 0,
                                    <<>>))

\* Tables of two rows for the probe pass: a cell has a colspan and the
\* widths its content was measured with.
CellWidths == {1, 2}
ProbedCells ==
    {[colspan |-> s, min_width |-> w, max_width |-> 2 * w] :
        s \in 1..MaxColspan, w \in CellWidths}
ProbedRows == UNION {[1..k -> ProbedCells] : k \in 1..MaxCells}
ProbeInputs ==
    {[kind |-> "probe", rows |-> <<r1, r2>>] :
        r1 \in ProbedRows, r2 \in ProbedRows}

ApplyComputeColumnWidths ==
    /\ Pending("probe")
    /\ Apply("compute_column_widths",
             compute_column_widths(
                 probe.arg.rows,
                 [min_column_widths |-> <<>>, max_column_widths |-> <<>>]))

\* Tables of contents of three entries, numbered in preorder, flat or
\* nested; an entry resolves to an offset of the chunk or to nothing.  The
\* page is the span offset..offset + 2.
MaxTocOffset == 3
Resolutions == {None} \cup {Some(o) : o \in 0..MaxTocOffset}

Toc(shape, r) ==
    IF shape = "flat"
        THEN <<TocEntry(0, r[1], <<>>), TocEntry(1, r[2], <<>>),
               TocEntry(2, r[3], <<>>)>>
    ELSE IF shape = "nested"
        THEN <<TocEntry(0, r[1], <<TocEntry(1, r[2], <<>>)>>),
               TocEntry(2, r[3], <<>>)>>
    ELSE <<TocEntry(0, r[1],
                    <<TocEntry(1, r[2], <<TocEntry(2, r[3], <<>>)>>)>>)>>

TocInputs ==
    {[kind |-> "toc", shape |-> s, resolved |-> r, offset |-> o, dir |-> d] :
        s \in {"flat", "nested", "chain"}, r \in [1..3 -> Resolutions],
        o \in {0, 2}, d \in {"Previous", "Next"}}

ApplyChapterRelative ==
    /\ Pending("toc")
    /\ Apply("chapter_relative",
             chapter_relative(probe.arg.offset, probe.arg.offset + 2,
                              probe.arg.dir,
                              Toc(probe.arg.shape, probe.arg.resolved)))

LayoutInputs ==
    TextInputs \cup BlockInputs \cup EmptyBlockInputs \cup ColumnInputs
    \cup RowInputs \cup FitInputs \cup GlueInputs \cup EntityInputs
    \cup ProbeInputs \cup TocInputs

InitLayout ==
    /\ Constructed({<<"text", "float">>}, TRUE)
    /\ NoDevices
    /\ \E a \in LayoutInputs : probe = Input(a)

NextLayout ==
    \/ ApplyMakeParagraphItems
    \/ ApplyBuildChildren
    \/ ApplyBuildDisplayListRec
    \/ ApplyColumnWidths
    \/ ApplyEmitCells
    \/ ApplyFitChain
    \/ ApplyPlaceGlues
    \/ ApplyGatherInlineMaterial
    \/ ApplyComputeColumnWidths
    \/ ApplyChapterRelative

SpecLayout == InitLayout /\ [][NextLayout]_vars

-----------------------------------------------------------------------------
(* PresetsList (view/presets_list.rs).  presets_list is the view's pages   *)
(* and current_page, the number of presets update was last called with,    *)
(* and frame: None, or the locals of an update that has not returned.  A   *)
(* page is a sequence of items, Normal(index) or Page(dir).  item_index is *)
(* kept modulo max_per_line, the only way update reads it.                 *)

EngineFields ==
    <<spine, cache, fonts, ignore_document_css, margin, font_size,
      text_align, line_height, dims, dpi, font_files, probe>>

\* A call on a view or a device: the engine is left alone.
Called(name, r) ==
    /\ op' = name
    /\ ret' = r
    /\ UNCHANGED EngineFields

Normal(index) == [kind |-> "Normal", index |-> index, dir |-> "none"]
Page(dir) == [kind |-> "Page", index |-> 0, dir |-> dir]

new_presets_list ==
    [pages |-> <<>>, current_page |-> 0, presets_count |-> 0, frame |-> None]

MaxPresets == 4
MaxPerLine == 4
MaxPages == 4

\* self.pages.push(children), up to MaxPages pages.
push_page(pages, page) ==
    IF Len(pages) < MaxPages THEN Append(pages, page) ELSE pages

\* update up to the while loop.
update_enter(pl, presets_count, max_per_line) ==
    [pl EXCEPT !.pages = <<>>,
               !.presets_count = presets_count,
               !.frame = Some([presets_count |-> presets_count,
                               max_per_line |-> max_per_line,
                               children |-> <<>>,
                               item_index |-> 0,
                               index |-> 0])]

\* Whether the item at position is a Page item.
is_page_item(position, index, presets_count, max_per_line) ==
    \/ position = 0 /\ index > 0
    \/ position = max_per_line - 1 /\ index < presets_count - 1

\* One iteration of the while loop of update.
update_iteration(pl) ==
    LET f == Unwrap(pl.frame)
        position == f.item_index % f.max_per_line
        paging == is_page_item(position, f.index, f.presets_count,
                               f.max_per_line)
        kind == IF paging
                    THEN Page(IF position = 0 THEN "Previous" ELSE "Next")
                    ELSE Normal(f.index)
        next_index == IF paging THEN f.index ELSE f.index + 1
        next_item_index == (f.item_index + 1) % f.max_per_line
        full == next_item_index = 0 \/ next_index = f.presets_count
    IN [pl EXCEPT
           !.pages = IF full THEN push_page(@, Append(f.children, kind))
                     ELSE @,
           !.frame = Some([f EXCEPT
                              !.children = IF full THEN <<>>
                                           ELSE Append(f.children, kind),
                              !.item_index = next_item_index,
                              !.index = next_index])]

saturating_sub(a, b) == IF a >= b THEN a - b ELSE 0

\* update after the loop.
update_exit(pl) ==
    [pl EXCEPT !.current_page =
                   IF @ <= saturating_sub(Len(pl.pages), 1) THEN @
                   ELSE saturating_sub(Len(pl.pages), 1),
               !.frame = None]

\* set_current_page; pages.len() - 1 on no pages overflows: a panic in a
\* build with overflow checks, usize::MAX without.
set_current_page(pl, dir, overflow_checks) ==
    IF dir = "Next"
        THEN IF pl.pages = <<>>
                THEN IF overflow_checks THEN [list |-> pl, panic |-> TRUE]
                     ELSE [list |-> [pl EXCEPT !.current_page = @ + 1],
                           panic |-> FALSE]
             ELSE IF pl.current_page < Len(pl.pages) - 1
                THEN [list |-> [pl EXCEPT !.current_page = @ + 1],
                      panic |-> FALSE]
             ELSE [list |-> pl, panic |-> FALSE]
    ELSE IF pl.current_page > 0
        THEN [list |-> [pl EXCEPT !.current_page = @ - 1], panic |-> FALSE]
    ELSE [list |-> pl, panic |-> FALSE]

\* handle_event: a Swipe that starts in the view, or a Page event.
handle_event(pl, evt, overflow_checks) ==
    IF evt.kind = "Swipe" /\ evt.inside /\ evt.dir = "West"
        THEN set_current_page(pl, "Next", overflow_checks)
    ELSE IF evt.kind = "Swipe" /\ evt.inside /\ evt.dir = "East"
        THEN set_current_page(pl, "Previous", overflow_checks)
    ELSE IF evt.kind = "Page"
        THEN set_current_page(pl, evt.dir, overflow_checks)
    ELSE [list |-> pl, panic |-> FALSE]

\* children: &self.pages[self.current_page].
children(pl) ==
    IF pl.current_page < Len(pl.pages) THEN RUnit ELSE RAbort

Events ==
    {[kind |-> "Swipe", dir |-> d, inside |-> i] :
        d \in {"West", "East", "North"}, i \in BOOLEAN}
    \cup {[kind |-> "Page", dir |-> d, inside |-> TRUE] :
             d \in {"Previous", "Next"}}

Updating == presets_list.frame # None

Idle == Running /\ ~Updating

ListCall(name, r) ==
    /\ presets_list' = r.list
    /\ Called(name, IF r.panic THEN RAbort ELSE RUnit)
    /\ UNCHANGED <<input, framebuffer>>

CallUpdate ==
    /\ Idle
    /\ \E n \in 1..MaxPresets, m \in 1..MaxPerLine :
          ListCall("update",
                   [list |-> update_enter(presets_list, n, m),
                    panic |-> FALSE])

UpdateLoop ==
    /\ Updating
    /\ Unwrap(presets_list.frame).index
           < Unwrap(presets_list.frame).presets_count
    /\ ListCall("update",
                [list |-> update_iteration(presets_list), panic |-> FALSE])

UpdateReturn ==
    /\ Updating
    /\ Unwrap(presets_list.frame).index
           >= Unwrap(presets_list.frame).presets_count
    /\ ListCall("update",
                [list |-> update_exit(presets_list), panic |-> FALSE])

CallSetCurrentPage ==
    /\ Idle
    /\ presets_list.current_page < MaxPages
    /\ \E dir \in {"Previous", "Next"}, checks \in BOOLEAN :
          ListCall("set_current_page",
                   set_current_page(presets_list, dir, checks))

CallHandleEvent ==
    /\ Idle
    /\ presets_list.current_page < MaxPages
    /\ \E evt \in Events, checks \in BOOLEAN :
          ListCall("handle_event", handle_event(presets_list, evt, checks))

CallChildren ==
    /\ Idle
    /\ presets_list' = presets_list
    /\ Called("children", children(presets_list))
    /\ UNCHANGED <<input, framebuffer>>

InitPresets ==
    /\ Constructed({<<"text", "float">>}, TRUE)
    /\ probe = NoProbe
    /\ presets_list = new_presets_list
    /\ input = Absent
    /\ framebuffer = Absent

NextPresets ==
    \/ CallUpdate
    \/ UpdateLoop
    \/ UpdateReturn
    \/ CallSetCurrentPage
    \/ CallHandleEvent
    \/ CallChildren

\* update runs to its end once called: nothing else runs on its thread.
SpecPresets ==
    /\ InitPresets
    /\ [][NextPresets]_vars
    /\ WF_vars(UpdateLoop)
    /\ WF_vars(UpdateReturn)

-----------------------------------------------------------------------------

(* KoboFramebuffer (framebuffer/kobo.rs).  framebuffer is the token, the   *)
(* flags (the set of the EPDC flags that are set) and monochrome, with the *)
(* device the program runs on and returned, the tokens the successful      *)
(* updates have returned since Init.  A u32 is [hi, lo], its two halves of *)
(* 16 bits.                                                                *)

U16 == 65536

u32(hi, lo) == [hi |-> hi, lo |-> lo]

\* u32::wrapping_add(1)
wrapping_add(a) ==
    IF a.lo + 1 < U16 THEN u32(a.hi, a.lo + 1)
    ELSE u32((a.hi + 1) % U16, 0)

UpdateModes == {"Gui", "Partial", "Full", "Fast", "FastMono"}

\* CURRENT_DEVICE: mark() >= 7, the Aura, or another model before mark 7.
Devices == {"Mark7", "Aura", "Other"}

\* KoboFramebuffer::new, and the same framebuffer 2^32 - 3 updates later.
new_framebuffer(device, token) ==
    [token |-> token, flags |-> {}, monochrome |-> FALSE, device |-> device,
     returned |-> <<>>]

\* The flags update adds for one call.
call_flags(fb, mode) ==
    (IF mode = "Partial" /\ fb.device = "Aura"
         THEN {"EPDC_FLAG_USE_AAD"} ELSE {})
    \cup (IF mode = "FastMono" \/ fb.monochrome
              THEN {"EPDC_FLAG_FORCE_MONOCHROME"} ELSE {})

\* update with the flags of the call kept in self.flags.
update_storing_flags(fb, mode, sent) ==
    IF sent
        THEN [fb |-> [fb EXCEPT !.token = wrapping_add(@),
                                !.flags = @ \cup call_flags(fb, mode),
                                !.returned = Append(@, fb.token)],
              ret |-> RSome(fb.token),
              flags |-> fb.flags \cup call_flags(fb, mode)]
    ELSE [fb |-> fb, ret |-> RNone, flags |-> fb.flags \cup call_flags(fb, mode)]

\* update; sent tells whether send_update_v1/v2 succeeded.  ret is
\* Ok(update_marker) or the Err, flags what the driver was given.
update(fb, mode, sent) ==
    IF sent
        THEN [fb |-> [fb EXCEPT !.token = wrapping_add(@),
                                !.returned = Append(@, fb.token)],
              ret |-> RSome(fb.token),
              flags |-> fb.flags \cup call_flags(fb, mode)]
    ELSE [fb |-> fb, ret |-> RNone, flags |-> fb.flags \cup call_flags(fb, mode)]

set_inverted(fb, enable) ==
    IF enable
        THEN [fb EXCEPT !.flags = @ \cup {"EPDC_FLAG_ENABLE_INVERSION"}]
        ELSE [fb EXCEPT !.flags = @ \ {"EPDC_FLAG_ENABLE_INVERSION"}]

inverted(fb) == "EPDC_FLAG_ENABLE_INVERSION" \in fb.flags

set_monochrome(fb, enable) == [fb EXCEPT !.monochrome = enable]

MaxUpdates == 3

FbCall(name, fb, r) ==
    /\ framebuffer' = fb
    /\ Called(name, r)
    /\ UNCHANGED <<presets_list, input>>

CallUpdateFramebuffer ==
    /\ Len(framebuffer.returned) < MaxUpdates
    /\ \E mode \in UpdateModes, sent \in BOOLEAN :
          FbCall("update", update(framebuffer, mode, sent).fb,
                 [update(framebuffer, mode, sent).ret EXCEPT
                     !.items = update(framebuffer, mode, sent).flags])

CallSetInverted ==
    \E enable \in BOOLEAN :
        FbCall("set_inverted", set_inverted(framebuffer, enable), RUnit)

CallInverted ==
    FbCall("inverted", framebuffer,
           RSome(IF inverted(framebuffer) THEN 1 ELSE 0))

CallSetMonochrome ==
    \E enable \in BOOLEAN :
        FbCall("set_monochrome", set_monochrome(framebuffer, enable), RUnit)

InitFramebuffer ==
    /\ Constructed({<<"text", "float">>}, TRUE)
    /\ probe = NoProbe
    /\ presets_list = Absent
    /\ input = Absent
    /\ \E device \in Devices, token \in {u32(0, 1), u32(U16 - 1, U16 - 2)} :
          framebuffer = new_framebuffer(device, token)

NextFramebuffer ==
    \/ CallUpdateFramebuffer
    \/ CallSetInverted
    \/ CallInverted
    \/ CallSetMonochrome

SpecFramebuffer == InitFramebuffer /\ [][NextFramebuffer]_vars

-----------------------------------------------------------------------------

(* parse_device_events (input.rs).  input holds the locals of the function *)
(* (id, position, pressure, dims, rotation, fingers, packet_ids, proto,    *)
(* tc, mirror_x, mirror_y), its argument display, ty: the Finger events    *)
(* sent while the last raw event was handled, and reported: for each id    *)
(* the position of the last Down or Motion sent, None after an Up.  The    *)
(* receiver of ty is alive.  The other device events (UserActivity,        *)
(* Button, CoverOn, CoverOff, RotateScreen) and last_activity, which only  *)
(* UserActivity reads, are left out.  CURRENT_DEVICE.should_mirror_axes is *)
(* not part of these sources: any pair of booleans is taken for it.        *)

FingerIds == {0, 1}
AbsValues == {0, 1}
Rotations == 0..3

SINGLE_TOUCH_CODES ==
    [pressure |-> "ABS_PRESSURE", x |-> "ABS_X", y |-> "ABS_Y"]
MULTI_TOUCH_CODES_A ==
    [pressure |-> "ABS_MT_TOUCH_MAJOR", x |-> "ABS_MT_POSITION_X",
     y |-> "ABS_MT_POSITION_Y"]
MULTI_TOUCH_CODES_B ==
    [MULTI_TOUCH_CODES_A EXCEPT !.pressure = "ABS_MT_PRESSURE"]

touch_codes(proto) ==
    CASE proto = "Single" -> SINGLE_TOUCH_CODES
      [] proto = "MultiA" -> MULTI_TOUCH_CODES_A
      [] proto = "MultiB" -> MULTI_TOUCH_CODES_B

\* mem::swap(&mut tc.x, &mut tc.y)
swap_codes(tc) == [tc EXCEPT !.x = tc.y, !.y = tc.x]

\* mem::swap(&mut dims.0, &mut dims.1)
swap_dims(d) == <<d[2], d[1]>>

Finger(id, status, position) ==
    [id |-> id, status |-> status, position |-> position]

NoFingers == [i \in {} |-> <<0, 0>>]

\* The position of the last Down or Motion sent for each id.
RECURSIVE Track(_, _)
Track(reported, events) ==
    IF events = <<>> THEN reported
    ELSE Track([reported EXCEPT ![Head(events).id] =
                   IF Head(events).status = "Up" THEN None
                   ELSE Some(Head(events).position)],
               Tail(events))

\* parse_device_events up to its loop.
parse_device_events(proto, display, mirror) ==
    [id |-> 0, position |-> <<0, 0>>, pressure |-> 0,
     dims |-> display.dims, rotation |-> display.rotation,
     fingers |-> NoFingers, packet_ids |-> {}, proto |-> proto,
     tc |-> IF display.rotation % 2 = 1
                THEN swap_codes(touch_codes(proto))
                ELSE touch_codes(proto),
     mirror_x |-> mirror[1], mirror_y |-> mirror[2],
     display |-> display, ty |-> <<>>,
     reported |-> [i \in FingerIds |-> None]]

\* The EV_ABS arm.
on_abs(st, evt) ==
    IF evt.code = "ABS_MT_TRACKING_ID"
        THEN [st EXCEPT !.id = evt.value,
                        !.packet_ids = IF st.proto = "MultiB"
                                           THEN @ \cup {evt.value} ELSE @]
    ELSE IF evt.code = st.tc.x
        THEN [st EXCEPT !.position[1] =
                 IF st.mirror_x THEN st.dims[1] - 1 - evt.value
                 ELSE evt.value]
    ELSE IF evt.code = st.tc.y
        THEN [st EXCEPT !.position[2] =
                 IF st.mirror_y THEN st.dims[2] - 1 - evt.value
                 ELSE evt.value]
    ELSE IF evt.code = st.tc.pressure
        THEN [st EXCEPT !.pressure = evt.value]
    ELSE st

\* Motion is sent for any report of a finger that is down.
finger_moved_always(p, position) == TRUE

\* if p != position
finger_moved(p, position) == p # position

Put(fingers, id, position) ==
    [i \in (DOMAIN fingers) \cup {id} |->
        IF i = id THEN position ELSE fingers[i]]

Remove(fingers, ids) == [i \in (DOMAIN fingers) \ ids |-> fingers[i]]

\* The fingers that are not in the packet, by increasing id.
RECURSIVE lifted(_, _)
lifted(fingers, ids) ==
    IF ids = {} THEN <<>>
    ELSE LET i == CHOOSE k \in ids : \A j \in ids : k <= j
         IN <<Finger(i, "Up", fingers[i])>> \o lifted(fingers, ids \ {i})

\* The EV_SYN arm.
on_syn(st, evt) ==
    IF \/ evt.code = "SYN_MT_REPORT"
       \/ st.proto = "Single" /\ evt.code = "SYN_REPORT"
        THEN IF st.id \in DOMAIN st.fingers
                THEN IF st.pressure > 0
                        THEN IF finger_moved(st.fingers[st.id], st.position)
                                THEN [st EXCEPT
                                         !.ty = <<Finger(st.id, "Motion",
                                                         st.position)>>,
                                         !.fingers = Put(@, st.id,
                                                         st.position)]
                             ELSE st
                     ELSE [st EXCEPT
                              !.ty = <<Finger(st.id, "Up", st.position)>>,
                              !.fingers = Remove(@, {st.id})]
             ELSE [st EXCEPT
                      !.ty = <<Finger(st.id, "Down", st.position)>>,
                      !.fingers = Put(@, st.id, st.position)]
    ELSE IF st.proto = "MultiB" /\ evt.code = "SYN_REPORT"
        THEN [st EXCEPT
                 !.ty = lifted(st.fingers,
                               (DOMAIN st.fingers) \ st.packet_ids),
                 !.fingers = Remove(@, (DOMAIN st.fingers) \ st.packet_ids),
                 !.packet_ids = {}]
    ELSE st

\* The KEY_ROTATE_DISPLAY arm with the dimensions left as they are.
on_rotate_display_keeping_dims(st, evt, mirror) ==
    IF evt.value # st.rotation
        THEN [st EXCEPT
                 !.tc = IF (IF st.rotation >= evt.value
                               THEN st.rotation - evt.value
                               ELSE evt.value - st.rotation) % 2 = 1
                            THEN swap_codes(@) ELSE @,
                 !.rotation = evt.value,
                 !.mirror_x = mirror[1],
                 !.mirror_y = mirror[2]]
    ELSE st

\* The KEY_ROTATE_DISPLAY arm of EV_KEY.
on_rotate_display(st, evt, mirror) ==
    IF evt.value # st.rotation
        THEN [st EXCEPT
                 !.tc = IF (IF st.rotation >= evt.value
                               THEN st.rotation - evt.value
                               ELSE evt.value - st.rotation) % 2 = 1
                            THEN swap_codes(@) ELSE @,
                 !.dims = IF (IF st.rotation >= evt.value
                                 THEN st.rotation - evt.value
                                 ELSE evt.value - st.rotation) % 2 = 1
                              THEN swap_dims(@) ELSE @,
                 !.rotation = evt.value,
                 !.mirror_x = mirror[1],
                 !.mirror_y = mirror[2]]
    ELSE st

\* One iteration of the loop: the event evt received from rx.
parse_device_event(st, evt, mirror) ==
    LET s0 == [st EXCEPT !.ty = <<>>]
        s1 == IF evt.kind = "EV_ABS" THEN on_abs(s0, evt)
              ELSE IF evt.kind = "EV_SYN" THEN on_syn(s0, evt)
              ELSE IF evt.kind = "EV_KEY" /\ evt.code = "KEY_ROTATE_DISPLAY"
                  THEN on_rotate_display(s0, evt, mirror)
              ELSE s0
    IN [s1 EXCEPT !.reported = Track(@, s1.ty)]

InputEvent(kind, code, value) ==
    [kind |-> kind, code |-> code, value |-> value]

AbsEvents(proto) ==
    {InputEvent("EV_ABS", "ABS_MT_TRACKING_ID", v) : v \in FingerIds}
    \cup {InputEvent("EV_ABS", c, v) :
             c \in {touch_codes(proto).x, touch_codes(proto).y,
                    touch_codes(proto).pressure},
             v \in AbsValues}

SynEvents ==
    {InputEvent("EV_SYN", c, 0) : c \in {"SYN_MT_REPORT", "SYN_REPORT"}}

KeyEvents ==
    {InputEvent("EV_KEY", "KEY_ROTATE_DISPLAY", v) : v \in Rotations}

Mirrors == BOOLEAN \X BOOLEAN

Receive(evt, mirror) ==
    /\ input' = parse_device_event(input, evt, mirror)
    /\ Called("parse_device_events", RUnit)
    /\ UNCHANGED <<presets_list, framebuffer>>

ReceiveAbs ==
    \E evt \in AbsEvents(input.proto) : Receive(evt, <<FALSE, FALSE>>)

ReceiveSyn == \E evt \in SynEvents : Receive(evt, <<FALSE, FALSE>>)

ReceiveKey == \E evt \in KeyEvents, mirror \in Mirrors : Receive(evt, mirror)

\* The thread started by device_events on a display of the given
\* dimensions and rotations.
Listening(dimensions, rotations) ==
    /\ Constructed({<<"text", "float">>}, TRUE)
    /\ probe = NoProbe
    /\ presets_list = Absent
    /\ framebuffer = Absent
    /\ \E proto \in {"Single", "MultiA", "MultiB"}, r \in rotations,
          mirror \in Mirrors :
          input = parse_device_events(
                      proto, [dims |-> dimensions, rotation |-> r], mirror)

\* Touches on a square display.
InitTouch == Listening(<<2, 2>>, {0})

NextTouch ==
    \/ ReceiveAbs
    \/ ReceiveSyn
    \/ ReceiveKey

SpecTouch == InitTouch /\ [][NextTouch]_vars

\* Rotations alone, from every rotation of the display.
InitRotation == Listening(<<2, 3>>, Rotations)

NextRotation == ReceiveKey

SpecRotation == InitRotation /\ [][NextRotation]_vars

-----------------------------------------------------------------------------

(* Argument values the properties quantify over (wider than the values the *)
(* calls of Next are made with).                                           *)

AnyLayoutArgs ==
    LayoutArgs \cup {<<SmallWidth, SmallHeight, 2 * DEFAULT_FONT_SIZE,
                       DEFAULT_DPI>>}
AnyTextAligns == {"Justify", "Left", "Right", "Center"}
AnyFamilyNames == {"LibertinusSerif", "Bitter", "Missing"}
AnyMarginWidths == (0 - 1)..12
AnyLineHeights == {10, DEFAULT_LINE_HEIGHT, 15}
AnyEdges == {0, mm_to_px(DEFAULT_MARGIN_WIDTH, DEFAULT_DPI)}
AnyFontSizes == {DEFAULT_FONT_SIZE, 2 * DEFAULT_FONT_SIZE}

AlwaysClearing ==
    {"layout", "set_text_align", "set_line_height", "set_margin",
     "set_font_size"}
Guarded == {"set_margin_width", "set_font_family", "set_ignore_document_css"}
SetterNames == AlwaysClearing \cup Guarded

IsEmpty(c) == DOMAIN c = {}

-----------------------------------------------------------------------------
(* C1 *)

-----------------------------------------------------------------------------
(* Vocabulary of the navigation properties.                                *)

QueryNames == {"resolve_location", "words", "links", "images", "pixmap"}

\* The chunk that owns the global offset o < size.
ChunkOf(o) == Unwrap(vertebra_coordinates(Self, o))[1]

\* f_k: the first-command offset of page k (from 0) of a display list.
F(dl, k) == dl[k + 1][1].offset

\* Page k covers o: f_k <= o < f_{k+1}, the first page open to the left and
\* the last page open to the right.
Covers(dl, k, o) ==
    /\ k = 0 \/ F(dl, k) <= o
    /\ k = Len(dl) - 1 \/ o < F(dl, k + 1)

\* The chunk's entry cannot be read or has no body element.
NoContent(i) ==
    LET doc == Archive[spine[i + 1].path]
    IN ~(doc.readable /\ doc.has_body)

-----------------------------------------------------------------------------
(* C2 *)

\* C2: for every offset o of a chunk whose display list has pages with
\* first-command offsets f_0..f_{n-1}, exactly one page k covers o
\* (f_k <= o < f_{k+1}, k = 0 below f_1, k = n-1 from f_{n-1} on) and
\* resolve_location(Exact(o)) returns f_k.
C2_ExactReturnsUniqueCoveringPage ==
    \A o \in Offsets(Self) :
        o < size(Self) =>
            LET r == resolve_location(Self, Exact(o))
                dl == r.doc.cache[ChunkOf(o)]
                n == Len(dl)
            IN n >= 1 =>
                \E k \in 0..(n - 1) :
                    /\ Covers(dl, k, o)
                    /\ \A j \in 0..(n - 1) : Covers(dl, j, o) => j = k
                    /\ r.ret = RSome(F(dl, k))

-----------------------------------------------------------------------------
(* C3 *)

\* C3: for every offset o that page_index does not put on the first page of
\* its chunk, Previous(o) returns an offset p and Next(p) returns what
\* Exact(o) returns, for every display list the layout produces.
C3_NextOfPreviousIsExact ==
    \A o \in Offsets(Self) :
        o < size(Self) =>
            LET x == resolve_location(Self, Exact(o))
                dl == x.doc.cache[ChunkOf(o)]
            IN (Len(dl) >= 1 /\ page_of(dl, o) > 0) =>
                LET p == resolve_location(Self, Previous(o))
                IN /\ p.ret.tag = "some"
                   /\ resolve_location(p.doc, NextLoc(p.ret.val)).ret = x.ret

-----------------------------------------------------------------------------
(* C4 *)

\* C4: when o is on the last page of chunk i, Next(o) returns none if i is
\* the last chunk and otherwise the first-command offset of the first page
\* of chunk i+1, at or after the start of chunk i+1, with chunk i+1 left in
\* the cache; when o is on the first page of chunk i, Previous(o) returns
\* none if i = 0 and otherwise the first-command offset of the last page of
\* chunk i-1.
C4_StepsAcrossChunkBoundary ==
    \A o \in Offsets(Self) :
        o < size(Self) =>
            LET i == ChunkOf(o)
                dl == resolve_location(Self, Exact(o)).doc.cache[i]
                n == Len(dl)
                nx == resolve_location(Self, NextLoc(o))
                pv == resolve_location(Self, Previous(o))
            IN /\ (n >= 1 /\ page_of(dl, o) = n - 1) =>
                    IF i = Len(spine) - 1 THEN nx.ret = RNone
                    ELSE /\ (i + 1) \in DOMAIN nx.doc.cache
                         /\ Len(nx.doc.cache[i + 1]) >= 1
                         /\ nx.ret = RSome(F(nx.doc.cache[i + 1], 0))
                         /\ nx.ret.val >= offset(Self, i + 1)
               /\ (n >= 1 /\ page_of(dl, o) = 0) =>
                    IF i = 0 THEN pv.ret = RNone
                    ELSE LET prev == pv.doc.cache[i - 1]
                         IN /\ Len(prev) >= 1
                            /\ pv.ret = RSome(F(prev, Len(prev) - 1))

-----------------------------------------------------------------------------
(* C5 *)

\* The elements of a document that carry an id: <<id, local offset>>.
IdsOf(doc) ==
    {doc.root_ids[k] : k \in 1..Len(doc.root_ids)}
    \cup {<<doc.paras[k].id, doc.paras[k].offset>> :
             k \in {j \in 1..Len(doc.paras) : doc.paras[j].id # ""}}

SpinePaths == {spine[i].path : i \in 1..Len(spine)}
IndexOfPath(p) == (CHOOSE i \in 1..Len(spine) : spine[i].path = p) - 1

\* C5: Uri(path#id) with path in the spine and id carried by an element of
\* path returns (sum of the sizes of the chunks before path) + (local
\* offset of that element); Uri(path) without fragment returns the
\* first-command offset of the first page of the chunk; a path that is not
\* in the spine, or an id no element carries, returns none.
C5_UriResolvesToElementOffset ==
    \A u \in Uris(Self) :
        LET r == resolve_location(Self, UriLoc(u))
        IN IF u.path \notin SpinePaths THEN r.ret = RNone
           ELSE LET i == IndexOfPath(u.path)
                    ids == {p \in IdsOf(Archive[u.path]) :
                               IsSome(u.frag) /\ p[1] = Unwrap(u.frag)}
                IN IF IsSome(u.frag)
                   THEN IF ids = {} THEN r.ret = RNone
                        ELSE \E p \in ids :
                                r.ret = RSome(offset(Self, i) + p[2])
                   ELSE /\ Len(r.doc.cache[i]) >= 1
                        /\ r.ret = RSome(F(r.doc.cache[i], 0))

-----------------------------------------------------------------------------
(* C6 *)

\* C6: every display list in the cache has at least one page and no empty
\* page, whatever the chunk (unreadable entry and missing body included);
\* a chunk with a body whose layout drew nothing has exactly one page
\* holding exactly one Marker at chunk start + body offset.
C6_EveryDisplayListHasAPage ==
    \A i \in DOMAIN cache :
        LET dl == cache[i]
            doc == Archive[spine[i + 1].path]
        IN /\ Len(dl) >= 1
           /\ \A k \in 1..Len(dl) : dl[k] # <<>>
           /\ (doc.has_body /\ doc.paras = <<>>) =>
                 dl = <<<<Cmd("Marker", offset(Self, i) + doc.body_offset)>>>>

-----------------------------------------------------------------------------
(* C7 *)

\* C7: when the content is missing (an offset at or after the total size,
\* or a chunk whose display list has zero pages) Exact, Next and Uri
\* without fragment, words, links, images and pixmap return none, Previous
\* returns none past the end of the spine, and none of them aborts.
C7_NoneOnMissingContent ==
    /\ \A o \in Offsets(Self) :
          (o >= size(Self) \/ NoContent(ChunkOf(o))) =>
              /\ resolve_location(Self, Exact(o)).ret = RNone
              /\ resolve_location(Self, NextLoc(o)).ret = RNone
              /\ resolve_location(Self, Previous(o)).ret.tag # "abort"
              /\ o >= size(Self) =>
                    resolve_location(Self, Previous(o)).ret = RNone
              /\ words(Self, Exact(o)).ret = RNone
              /\ links(Self, Exact(o)).ret = RNone
              /\ images(Self, Exact(o)).ret = RNone
              /\ pixmap(Self, Exact(o)).ret = RNone
    /\ \A i \in 0..(Len(spine) - 1) :
          NoContent(i) =>
              resolve_location(Self, UriLoc(Uri(spine[i + 1].path, None))).ret
                  = RNone

-----------------------------------------------------------------------------
(* C8 *)

\* Two engines answer every query alike.  Equal engines do, since a query
\* is a function of the engine; otherwise every query is compared.
SameAnswers(a, b) ==
    \/ a = b
    \/ /\ a.spine = b.spine
       /\ \A loc \in Locs(a) :
             resolve_location(a, loc).ret = resolve_location(b, loc).ret
       /\ \A loc \in PageLocs(a) :
             /\ words(a, loc).ret = words(b, loc).ret
             /\ links(a, loc).ret = links(b, loc).ret
             /\ images(a, loc).ret = images(b, loc).ret
             /\ pixmap(a, loc).ret = pixmap(b, loc).ret

\* The setters whose argument is always taken: set(s1); set(s2) answers as
\* set(s2).
LastValueWinsUnguarded ==
    /\ \A a1, a2 \in AnyLayoutArgs :
          SameAnswers(layout(layout(Self, a1[1], a1[2], a1[3], a1[4]),
                             a2[1], a2[2], a2[3], a2[4]),
                      layout(Self, a2[1], a2[2], a2[3], a2[4]))
    /\ \A a1, a2 \in AnyTextAligns :
          SameAnswers(set_text_align(set_text_align(Self, a1), a2),
                      set_text_align(Self, a2))
    /\ \A h1, h2 \in AnyLineHeights :
          SameAnswers(set_line_height(set_line_height(Self, h1), h2),
                      set_line_height(Self, h2))
    /\ \A m1, m2 \in AnyEdges :
          SameAnswers(set_margin(set_margin(Self, m1), m2),
                      set_margin(Self, m2))
    /\ \A f1, f2 \in AnyFontSizes :
          SameAnswers(set_font_size(set_font_size(Self, f1), f2),
                      set_font_size(Self, f2))
    /\ \A v1, v2 \in BOOLEAN :
          SameAnswers(set_ignore_document_css(
                          set_ignore_document_css(Self, v1), v2),
                      set_ignore_document_css(Self, v2))

\* C8 (as stated): for every setter and every two arguments s1, s2, values
\* the setter rejects included, set(s1); set(s2) answers every query as
\* set(s2) alone from the same state.
C8_LastValueWins ==
    /\ LastValueWinsUnguarded
    /\ \A w1, w2 \in AnyMarginWidths :
          SameAnswers(set_margin_width(set_margin_width(Self, w1), w2),
                      set_margin_width(Self, w2))
    /\ \A n1, n2 \in AnyFamilyNames :
          SameAnswers(set_font_family(set_font_family(Self, n1), n2),
                      set_font_family(Self, n2))

\* C8 (amended): set(s1); set(s2) answers every query as set(s2) alone
\* when the setter takes s2 (always for layout, set_text_align,
\* set_line_height, set_margin, set_font_size and set_ignore_document_css;
\* a width in 0..=10 for set_margin_width; a family that loads for
\* set_font_family); when set_margin_width or set_font_family rejects s2
\* it answers as set(s1) alone.
C8_LastAcceptedValueWins ==
    /\ LastValueWinsUnguarded
    /\ \A w1, w2 \in AnyMarginWidths :
          SameAnswers(set_margin_width(set_margin_width(Self, w1), w2),
                      IF w2 >= 0 /\ w2 <= 10 THEN set_margin_width(Self, w2)
                      ELSE set_margin_width(Self, w1))
    /\ \A n1, n2 \in AnyFamilyNames :
          SameAnswers(set_font_family(set_font_family(Self, n1), n2),
                      IF n2 \in LoadableFamilies THEN set_font_family(Self, n2)
                      ELSE set_font_family(Self, n1))

\* set_margin_width rejected its argument (the cache is still filled) after
\* an earlier call had set the margin to 10 mm, on the small page.
C8_Witness ==
    /\ op = "set_margin_width"
    /\ ~IsEmpty(cache)
    /\ margin = mm_to_px(100, dpi)
    /\ dims = <<SmallWidth, SmallHeight>>

-----------------------------------------------------------------------------
(* C9 *)

\* The engine with the same settings before its first query: nothing
\* cached and, unless a family was set, the default fonts not loaded yet.
Unqueried(e) ==
    [e EXCEPT !.cache = EmptyCache,
              !.fonts = IF @ = default_fonts THEN None ELSE @]

\* C9: with the settings unchanged, what resolve_location, words, links,
\* images and pixmap return for a location is what an engine with the same
\* settings and no query history returns, and asking again returns the
\* same.
C9_AnswersIndependentOfHistory ==
    /\ \A loc \in Locs(Self) :
          LET r == resolve_location(Self, loc)
          IN /\ r.ret = resolve_location(Unqueried(Self), loc).ret
             /\ r.ret = resolve_location(r.doc, loc).ret
    /\ \A loc \in PageLocs(Self) :
          /\ LET r == words(Self, loc)
             IN /\ r.ret = words(Unqueried(Self), loc).ret
                /\ r.ret = words(r.doc, loc).ret
          /\ LET r == links(Self, loc)
             IN /\ r.ret = links(Unqueried(Self), loc).ret
                /\ r.ret = links(r.doc, loc).ret
          /\ LET r == images(Self, loc)
             IN /\ r.ret = images(Unqueried(Self), loc).ret
                /\ r.ret = images(r.doc, loc).ret
          /\ LET r == pixmap(Self, loc)
             IN /\ r.ret = pixmap(Unqueried(Self), loc).ret
                /\ r.ret = pixmap(r.doc, loc).ret

\* A query has answered on the small page with one of the two chunks cached.
C9_Witness ==
    /\ op \in QueryNames
    /\ ret.tag = "some"
    /\ Cardinality(DOMAIN cache) = 1
    /\ dims = <<SmallWidth, SmallHeight>>

-----------------------------------------------------------------------------
(* C10 *)

\* offset, pages_count and vertebra_coordinates as the sizes determine them.
OffsetsFollowSizes ==
    /\ offset(Self, 0) = 0
    /\ \A i \in 1..Len(spine) :
          offset(Self, i) = offset(Self, i - 1) + spine[i].size
    /\ pages_count(Self) = offset(Self, Len(spine))
    /\ \A o \in 0..(size(Self) + Overshoot) :
          LET vc == vertebra_coordinates(Self, o)
          IN IF o >= offset(Self, Len(spine)) THEN vc = None
             ELSE /\ IsSome(vc)
                  /\ vc[1][1] \in 0..(Len(spine) - 1)
                  /\ vc[1][2] = offset(Self, vc[1][1])
                  /\ offset(Self, vc[1][1]) <= o
                  /\ o < offset(Self, vc[1][1]) + spine[vc[1][1] + 1].size

\* C10: no step changes the spine (paths, order, sizes), and in every state
\* offset(i) is the sum of the sizes of chunks 0..i-1, pages_count() the
\* sum of all sizes, and vertebra_coordinates(o) is (i, offset(i)) with
\* offset(i) <= o < offset(i) + size(i), or none when o >= the total size.
C10_SpineAndOffsetsStable ==
    /\ [][spine' = spine]_vars
    /\ []OffsetsFollowSizes

\* A query has answered after the page size and the margin were changed.
C10_Witness ==
    /\ op \in QueryNames
    /\ ret.tag = "some"
    /\ dims = <<SmallWidth, SmallHeight>>
    /\ margin = mm_to_px(100, dpi)

-----------------------------------------------------------------------------
(* C11: in every display list the layout produces, the first non-Marker    *)
(* offset of page k is <= the first non-Marker offset of page k+1, for     *)
(* every pair of consecutive pages.                                        *)

\* The offset of the first command of a page that is not a Marker.
RECURSIVE first_non_marker_offset(_)
first_non_marker_offset(page) ==
    IF page = <<>> THEN None
    ELSE IF Head(page).kind # "Marker" THEN Some(Head(page).offset)
    ELSE first_non_marker_offset(Tail(page))

NonDecreasingFirsts(dl) ==
    \A k \in 1..(Len(dl) - 1) :
        (IsSome(first_non_marker_offset(dl[k]))
         /\ IsSome(first_non_marker_offset(dl[k + 1])))
        => Unwrap(first_non_marker_offset(dl[k]))
               <= Unwrap(first_non_marker_offset(dl[k + 1]))

\* C11: on consecutive pages of every cached display list the first
\* non-Marker offsets do not decrease.
C11_FirstOffsetsNonDecreasing ==
    \A i \in DOMAIN cache : NonDecreasingFirsts(cache[i])

-----------------------------------------------------------------------------
(* C12: when the bundled fonts cannot be opened, every query that needs    *)
(* layout fails, now and on every later call (each call retries the load   *)
(* and the fonts stay unloaded), and the failure is a value returned to    *)
(* the caller: no call aborts.  Stated on the spines whose chunks all have *)
(* a body, where no call aborts when the fonts can be opened.              *)

SpineHasBodies ==
    \A i \in 1..Len(spine) :
        Archive[spine[i].path].readable /\ Archive[spine[i].path].has_body

\* C12: without the bundled fonts the fonts stay unloaded after every call
\* and no call aborts.
C12_FontFailureIsAValue ==
    (~font_files /\ SpineHasBodies) => (fonts = None /\ ret.tag # "abort")

\* With the fonts available no call aborts on these spines.
FontsAvailableNoAbort ==
    (font_files /\ SpineHasBodies) => ret.tag # "abort"

-----------------------------------------------------------------------------
(* C16: within one paragraph the Text commands built from the words of the *)
(* inline text have strictly increasing offsets in emission order, for     *)
(* every text content: words ended by whitespace, the trailing word,       *)
(* single-character words, words whose last character is multi-byte.       *)

StrictlyIncreasing(offsets) ==
    \A k \in 1..(Len(offsets) - 1) : offsets[k] < offsets[k + 1]

\* C16: the offsets of the Text elements make_paragraph_items builds from
\* a text are strictly increasing.
C16_WordOffsetsStrictlyIncrease ==
    probe.fn = "make_paragraph_items" => StrictlyIncreasing(probe.out)

-----------------------------------------------------------------------------
(* C14: for two adjacent sibling blocks, the first with bottom margin b    *)
(* and the second with top margin t, the cursor advances, between the      *)
(* bottom of the first block's content and the top of the second block's   *)
(* line box, by max(b,t) when both are non-negative, min(b,t) when both    *)
(* are non-positive and b+t when the signs differ; the bottom margin is    *)
(* never added on its own.  The distance is that between the last line of  *)
(* the first block and the first line of the second, both on one page.     *)

\* The Text commands of a display list in emission order: [page, y].
RECURSIVE text_lines(_, _)
text_lines(dl, k) ==
    IF k > Len(dl) THEN <<>>
    ELSE [j \in 1..Len(select_kind(dl[k], {"Text"})) |->
             [page |-> k,
              y |-> SelectSeq(dl[k], LAMBDA c : c.kind = "Text")[j].y]]
         \o text_lines(dl, k + 1)

Min(a, b) == IF a <= b THEN a ELSE b

\* Baseline to baseline less one line: from the bottom of the upper line
\* box to the top of the lower one.
GapBetween(upper, lower, k) == lower.y - upper.y - ProbeMetrics(k).line_height

-----------------------------------------------------------------------------
(* C17: for a block that produces no content, build_display_list_rec       *)
(* collapses the block's top and bottom margins together: the margin it    *)
(* hands to the next sibling has bottom = collapse(bottom, top) and        *)
(* top = 0.                                                                *)

\* C17: a block without content hands over top = 0 and
\* bottom = collapse(bottom, top).
C17_EmptyBlockCollapsesItsMargins ==
    probe.fn = "build_display_list_rec" =>
        probe.out.margin
            = [top |-> 0,
               bottom |-> collapse_margins(probe.arg.bottom, probe.arg.top)]

-----------------------------------------------------------------------------
(* C20: in a paragraph made of text only, every line is emitted with its   *)
(* baseline y <= page bottom - descender reserve: whenever the cursor      *)
(* after a line, or at the start of the paragraph, exceeds that bound, the *)
(* page is pushed, a new page is started and the cursor is set to page top *)
(* + ascender reserve before the next line is emitted.                     *)

BaselinesWithinPage(dl, m) ==
    \A k \in 1..Len(text_lines(dl, 1)) :
        text_lines(dl, 1)[k].y <= m.max_y - m.space_bottom

\* C20: every line of a text paragraph is emitted with its baseline
\* y <= page bottom - descender reserve, for every page and line height.
C20_EveryBaselineWithinPage ==
    (probe.fn = "build_children" /\ probe.arg.kind = "blocks") =>
        BaselinesWithinPage(probe.out.dl, ProbeMetrics(probe.arg.height))

LineFitsPage(m) == m.line_height <= m.max_y - m.min_y

\* C20 (amended): on a page at least one line high, every line of a text
\* paragraph is emitted with its baseline y <= page bottom - descender
\* reserve.
C20_BaselineWithinPageThatFitsALine ==
    (/\ probe.fn = "build_children"
     /\ probe.arg.kind = "blocks"
     /\ LineFitsPage(ProbeMetrics(probe.arg.height))) =>
        BaselinesWithinPage(probe.out.dl, ProbeMetrics(probe.arg.height))

\* A paragraph that went over the page bottom after a line, on a page that
\* fits a line.
C20_Witness ==
    /\ probe.fn = "build_children"
    /\ probe.arg.kind = "blocks"
    /\ LineFitsPage(ProbeMetrics(probe.arg.height))
    /\ Len(probe.out.dl) >= 3
    /\ probe.out.dl[Len(probe.out.dl)] # <<>>

-----------------------------------------------------------------------------
(* C13: for every table, with band width W and the minimum and maximum     *)
(* column widths of the probe pass: when the sum of the maxima is <= W, or *)
(* the sum of the minima is >= W, the chosen integer column widths sum to  *)
(* exactly W.                                                              *)

SumOfColumn(columns, j) == Sum([i \in 1..Len(columns) |-> columns[i][j]])

\* C13: when the maxima sum to at most W or the minima to at least W, the
\* column widths sum to W.
C13_ColumnWidthsSumToBand ==
    (/\ probe.fn = "column_widths"
     /\ \/ SumOfColumn(probe.arg.columns, 2) <= probe.arg.width
        \/ SumOfColumn(probe.arg.columns, 1) >= probe.arg.width) =>
        Sum(probe.out) = probe.arg.width

-----------------------------------------------------------------------------
(* C15: the emission pass of a table row never aborts on input data: for   *)
(* every column count and every colspan of its cells (past the last sized  *)
(* column, 0, more cells than columns, a nested table that replaces the    *)
(* column widths), every cell is laid out with the sum of the widths of    *)
(* the columns it spans or skipped, without an out-of-range access.        *)

\* The index of the first column cell k spans: the colspans before it.
FirstColumn(cells, k) == Sum([j \in 1..(k - 1) |-> cells[j].colspan])

\* C15: the emission loop of a row does not abort and lays out each cell
\* with the sum of the widths of the columns it spans.
C15_RowEmissionNeverAborts ==
    probe.fn = "emit_cells" =>
        /\ ~probe.out.abort
        /\ \A k \in 1..Len(probe.out.laid) :
               probe.out.laid[k]
                   = Sum(SubSeq(SizedColumns(probe.arg.columns),
                                FirstColumn(probe.arg.cells, k) + 1,
                                FirstColumn(probe.arg.cells, k)
                                    + probe.arg.cells[k].colspan))

-----------------------------------------------------------------------------
(* C18: place_paragraphs tries its line-breaking stages strictly in this   *)
(* order: total-fit; insertion of optional breaks followed by total-fit;   *)
(* standard-fit; cropping followed by standard-fit.  A stage runs only if  *)
(* every earlier stage returned no breakpoints, the first stage that       *)
(* returns breakpoints is the one whose breakpoints are emitted, and       *)
(* hyphen penalties of non-zero width are inserted only when the           *)
(* alignment is Justify.                                                   *)

StageOrder == <<"total_fit", "insert_breaks", "standard_fit", "crop">>

\* C18: the stages run in order, each only after the earlier ones returned
\* nothing; the first that returns breakpoints is emitted; hyphen-width
\* penalties only for Justify.
C18_FitStagesInOrder ==
    probe.fn = "fit_chain" =>
        LET ran == probe.out.ran
            fits == probe.arg.fits
        IN /\ Len(ran) >= 1
           /\ ran = SubSeq(StageOrder, 1, Len(ran))
           /\ \A k \in 1..(Len(ran) - 1) : ~fits[ran[k]]
           /\ Len(ran) < Len(StageOrder) => fits[ran[Len(ran)]]
           /\ probe.out.bps = IF fits[ran[Len(ran)]]
                              THEN Some(ran[Len(ran)]) ELSE None
           /\ probe.out.hyphens => probe.arg.align = "Justify"

\* The third stage is the one emitted, after hyphens were inserted.
C18_Witness ==
    /\ probe.fn = "fit_chain"
    /\ probe.out.bps = Some("standard_fit")
    /\ probe.out.ran = <<"total_fit", "insert_breaks", "standard_fit">>
    /\ probe.out.hyphens

-----------------------------------------------------------------------------
(* C19: while a line is emitted, after every glue the accumulated rounding *)
(* error epsilon (the integer glue widths placed so far minus their exact  *)
(* widths) satisfies -1 < epsilon < 1, for every sequence of glue widths   *)
(* and every finite ratio; so the x position at the end of the line        *)
(* differs from the exact position by less than one pixel.                 *)

-----------------------------------------------------------------------------
(* C21: the text materials of a Text node partition its text.              *)

\* No "&" of the bytes start..end of text has a ";" anywhere after it.
NoClosedEntity(text, start, end) ==
    \A k \in start..(end - 1) :
        text[k + 1] = "&" => find(text, k, ";") = None

\* The bytes start..end of text are "&", bytes other than ";", and ";".
ClosedEntity(text, start, end) ==
    /\ text[start + 1] = "&"
    /\ find(text, start, ";") = Some(end - 1 - start)

Partitions(node_offset, text, ms) ==
    /\ Len(ms) <= Len(text)
    /\ ms # <<>>
    /\ ms[1].start = 0
    /\ ms[Len(ms)].end = Len(text)
    /\ \A i \in 1..Len(ms) :
          /\ ms[i].start < ms[i].end
          /\ ms[i].offset = node_offset + ms[i].start
          /\ i < Len(ms) => ms[i].end = ms[i + 1].start
          /\ IF ms[i].decoded
                THEN ClosedEntity(text, ms[i].start, ms[i].end)
                ELSE NoClosedEntity(text, ms[i].start, ms[i].end)

\* C21: the materials gather_inline_material emits for a Text node have
\* consecutive byte ranges that cover the text in order, each with offset
\* node offset + range start, each closed "&...;" a material of its own,
\* an "&" with no later ";" literal text of the last one.
C21_MaterialsPartitionTheText ==
    probe.fn = "gather_inline_material"
        => Partitions(probe.arg.offset, probe.arg.text, probe.out)

\* "a&;&a": a word, a closed entity and an "&" that never closes.
C21_Witness ==
    /\ probe.fn = "gather_inline_material"
    /\ probe.arg.offset = 3
    /\ Len(probe.out) = 3
    /\ ~probe.out[1].decoded
    /\ probe.out[2].decoded
    /\ ~probe.out[3].decoded
    /\ probe.arg.text[probe.out[3].start + 1] = "&"

-----------------------------------------------------------------------------
(* C22: the probe pass records per column the largest width of the         *)
(* colspan = 1 cells that sit at that column.                              *)

\* The column of cell k of a row: the colspans of the cells before it.
RECURSIVE ColumnOf(_, _)
ColumnOf(row, k) ==
    IF k = 1 THEN 0 ELSE ColumnOf(row, k - 1) + row[k - 1].colspan

\* The colspan = 1 cells of the rows that sit at column c.
CellsAt(rows, c) ==
    {rows[i][k] : <<i, k>> \in
        {p \in (1..Len(rows)) \X (1..MaxCells + 1) :
            /\ p[2] <= Len(rows[p[1]])
            /\ rows[p[1]][p[2]].colspan = 1
            /\ ColumnOf(rows[p[1]], p[2]) = c}}

Largest(S) == CHOOSE w \in S : \A v \in S : v <= w

\* C22: after the probe pass the recorded minimum and maximum width of
\* every column c are the largest min-width and max-width among the
\* colspan = 1 cells at column c of any row.
C22_ColumnWidthsAreMaximaOfTheirCells ==
    probe.fn = "compute_column_widths"
        => \A c \in 0..(MaxCells * MaxColspan) :
               CellsAt(probe.arg.rows, c) # {}
                   => /\ c < Len(probe.out.min_column_widths)
                      /\ c < Len(probe.out.max_column_widths)
                      /\ probe.out.min_column_widths[c + 1] =
                             Largest({x.min_width :
                                         x \in CellsAt(probe.arg.rows, c)})
                      /\ probe.out.max_column_widths[c + 1] =
                             Largest({x.max_width :
                                         x \in CellsAt(probe.arg.rows, c)})

-----------------------------------------------------------------------------
(* C23: chapter_relative returns the nearest entry, in preorder, that      *)
(* resolves outside the current page.                                      *)

\* The preorder indices of the entries that resolve outside the page span
\* and lie after (before) the current chapter.
OutsideThePage(a, chap_index) ==
    {i \in 0..2 :
        /\ IF a.dir = "Next" THEN i > chap_index ELSE i < chap_index
        /\ a.resolved[i + 1] # None
        /\ \/ Unwrap(a.resolved[i + 1]) < a.offset
           \/ Unwrap(a.resolved[i + 1]) >= a.offset + 2}

Nearest(a, S) ==
    IF a.dir = "Next" THEN CHOOSE i \in S : \A j \in S : i <= j
    ELSE CHOOSE i \in S : \A j \in S : i >= j

CurrentChapter(a) ==
    chapter(a.offset, a.offset + 2, Toc(a.shape, a.resolved))

\* C23: chapter_relative returns the entry nearest in preorder index after
\* (Next) or before (Previous) the current chapter whose resolved offset is
\* outside the current page span; entries that do not resolve are passed
\* over.
C23_ChapterRelativeIsNearestOutside ==
    (probe.fn = "chapter_relative" /\ CurrentChapter(probe.arg) # None)
        => LET S == OutsideThePage(probe.arg,
                                   Unwrap(CurrentChapter(probe.arg)).index)
           IN IF S = {} THEN probe.out = None
              ELSE /\ probe.out # None
                   /\ Unwrap(probe.out).index = Nearest(probe.arg, S)

\* With every entry resolving the claim's statement holds.
ChapterRelativeWhenAllResolve ==
    (probe.fn = "chapter_relative"
        /\ \E i \in 1..3 : probe.arg.resolved[i] = None)
    \/ C23_ChapterRelativeIsNearestOutside

-----------------------------------------------------------------------------
(* C24: every marker of a paragraph is emitted once, before the commands   *)
(* of the paragraph that have a greater offset.                            *)

RECURSIVE Flatten(_)
Flatten(dl) == IF dl = <<>> THEN <<>> ELSE Head(dl) \o Flatten(Tail(dl))

\* The positions of the commands of paragraph k of a chunk that starts at
\* start_offset, in its display list taken as one sequence.
CommandsOf(cmds, paras, k, start_offset) ==
    {a \in 1..Len(cmds) :
        /\ cmds[a].offset >= start_offset + paras[k].offset
        /\ k < Len(paras)
               => cmds[a].offset < start_offset + paras[k + 1].offset}

MarkersPrecede(cmds, paras, start_offset) ==
    \A k \in 1..Len(paras) :
        /\ paras[k].id # ""
              => Cardinality(
                     {a \in CommandsOf(cmds, paras, k, start_offset) :
                         /\ cmds[a].kind = "Marker"
                         /\ cmds[a].offset =
                                start_offset + paras[k].offset}) = 1
        /\ \A a, b \in CommandsOf(cmds, paras, k, start_offset) :
              (/\ cmds[a].kind = "Marker"
               /\ cmds[b].kind # "Marker"
               /\ cmds[b].offset > cmds[a].offset) => a < b

\* C24: in every cached display list each marker of a paragraph is one
\* Marker command at chunk start + local offset, placed before every Text
\* or Image command of the paragraph with a greater offset.
C24_MarkersPrecedeLaterCommands ==
    \A i \in DOMAIN cache :
        MarkersPrecede(Flatten(cache[i]), Archive[spine[i + 1].path].paras,
                       offset(Self, i))

\* It holds of the chunks that float no image.
MarkersPrecedeWithoutFloats ==
    \A i \in DOMAIN cache :
        spine[i + 1].path # "float"
            => MarkersPrecede(Flatten(cache[i]),
                              Archive[spine[i + 1].path].paras,
                              offset(Self, i))

-----------------------------------------------------------------------------
(* C25: the cache is coherent with the settings.                           *)

-----------------------------------------------------------------------------
(* C26: update terminates and leaves every preset once, in order.          *)

\* The indices of the Normal items of the pages, in order.
RECURSIVE NormalIndices(_)
NormalIndices(items) ==
    IF items = <<>> THEN <<>>
    ELSE IF Head(items).kind = "Normal"
        THEN <<Head(items).index>> \o NormalIndices(Tail(items))
    ELSE NormalIndices(Tail(items))

EveryPresetOnce ==
    NormalIndices(Flatten(presets_list.pages)) =
        [k \in 1..presets_list.presets_count |-> k - 1]

\* C26: for every number of presets >= 1 and every max_per_line >= 1 an
\* update that was called returns, and when it has returned the Normal
\* items of the pages are the presets, each once and in order.
C26_UpdateTerminatesWithEveryPreset ==
    /\ Updating ~> ~Updating
    /\ []((op = "update" /\ ~Updating) => EveryPresetOnce)

\* With three items a line or more the loop ends.
UpdateTerminatesOnLongLines ==
    /\ (Updating /\ Unwrap(presets_list.frame).max_per_line >= 3)
           ~> ~Updating
    /\ []((op = "update" /\ ~Updating) => EveryPresetOnce)

-----------------------------------------------------------------------------
(* C27: current_page stays a valid index.                                  *)

\* C27: outside update, current_page is an index of pages when there are
\* pages; set_current_page and the events never abort on the subtraction,
\* and with no pages they leave current_page at 0.
C27_CurrentPageIsValid ==
    /\ (~Updating /\ presets_list.pages # <<>>)
           => presets_list.current_page < Len(presets_list.pages)
    /\ op \in {"set_current_page", "handle_event"} => ret.tag # "abort"
    /\ (~Updating /\ presets_list.pages = <<>>)
           => presets_list.current_page = 0

\* It holds once update has filled the pages.
CurrentPageValidWithPages ==
    (~Updating /\ presets_list.pages # <<>>)
        => /\ presets_list.current_page < Len(presets_list.pages)
           /\ ret.tag # "abort"

-----------------------------------------------------------------------------
(* C29: update returns the token and increments it when the update was     *)
(* sent, and changes nothing otherwise.                                    *)

\* b = a + 1 modulo 2^32.
Follows(a, b) ==
    \/ b.hi = a.hi /\ b.lo = a.lo + 1 /\ b.lo < U16
    \/ a.lo = U16 - 1 /\ b.lo = 0 /\ b.hi = a.hi + 1 /\ b.hi < U16
    \/ a = u32(U16 - 1, U16 - 1) /\ b = u32(0, 0)

\* The tokens are consecutive modulo 2^32 from the first one on, and the
\* next one is the token held.
ConsecutiveTokens(fb) ==
    /\ \A k \in 1..(Len(fb.returned) - 1) :
          Follows(fb.returned[k], fb.returned[k + 1])
    /\ fb.returned # <<>>
          => Follows(fb.returned[Len(fb.returned)], fb.token)

\* One call of update, as the claim describes it.
UpdateAsClaimed ==
    op' = "update"
        => IF ret'.tag = "some"
               THEN /\ ret'.val = framebuffer.token
                    /\ Follows(framebuffer.token, framebuffer'.token)
                    /\ framebuffer'.flags = framebuffer.flags
               ELSE /\ framebuffer'.token = framebuffer.token
                    /\ framebuffer'.flags = framebuffer.flags
                    /\ framebuffer'.returned = framebuffer.returned

\* C29: update returns the token held and increments it modulo 2^32 when
\* the update was sent, and leaves token and flags as they were when it
\* was not; the tokens returned are consecutive, and the stored flags
\* never hold the flags of a call (AAD, forced monochrome).
C29_TokenAdvancesOnSuccessOnly ==
    /\ [][UpdateAsClaimed]_vars
    /\ [](ConsecutiveTokens(framebuffer)
          /\ framebuffer.flags \subseteq {"EPDC_FLAG_ENABLE_INVERSION"})

\* The token has wrapped to 0 after an update in monochrome failed and the
\* next ones were sent.
C29_Witness ==
    /\ framebuffer.token = u32(0, 0)
    /\ framebuffer.monochrome
    /\ Len(framebuffer.returned) = 2
    /\ op = "update"
    /\ "EPDC_FLAG_FORCE_MONOCHROME" \in ret.items

-----------------------------------------------------------------------------
(* C28: the Finger events of an id are a prefix of (Down Motion* Up)*.     *)

\* Whether the events may follow what was last reported for their ids:
\* Down for an id that is up, Motion and Up for one that is down, Motion
\* only at another position than the last one reported.
RECURSIVE WellFormed(_, _)
WellFormed(last_reported, events) ==
    IF events = <<>> THEN TRUE
    ELSE LET e == Head(events)
         IN /\ CASE e.status = "Down" -> last_reported[e.id] = None
                 [] e.status = "Motion" ->
                        /\ last_reported[e.id] # None
                        /\ Unwrap(last_reported[e.id]) # e.position
                 [] e.status = "Up" -> last_reported[e.id] # None
            /\ WellFormed(Track(last_reported, <<e>>), Tail(events))

\* C28: under each protocol and for every sequence of raw events, the
\* Finger events sent for an id are a prefix of (Down Motion* Up)*, a
\* Motion only at a position that differs from the last one reported for
\* the id.
C28_FingerEventsWellFormed ==
    [][WellFormed(input.reported, input'.ty)]_vars

\* Under protocol B a report lifts a finger that was down and had moved,
\* while the other finger stays down.
C28_Witness ==
    /\ input.proto = "MultiB"
    /\ Len(input.ty) = 1
    /\ input.ty[1].status = "Up"
    /\ input.ty[1].position # <<0, 0>>
    /\ Cardinality(DOMAIN input.fingers) = 1

-----------------------------------------------------------------------------
(* C30: the axis codes and the dimensions follow the parity of the         *)
(* rotation.                                                               *)

\* C30: after any sequence of KEY_ROTATE_DISPLAY events with values in
\* 0..3, the axis codes are swapped relative to the protocol's exactly
\* when the rotation is odd, the dimensions are swapped relative to the
\* initial ones exactly when the parity of the rotation differs from the
\* initial one, and an event carrying the current rotation changes
\* nothing.
C30_AxesFollowRotationParity ==
    /\ input.tc = IF input.rotation % 2 = 1
                      THEN [touch_codes(input.proto) EXCEPT
                               !.x = touch_codes(input.proto).y,
                               !.y = touch_codes(input.proto).x]
                      ELSE touch_codes(input.proto)
    /\ input.dims = IF input.rotation % 2 # input.display.rotation % 2
                        THEN <<input.display.dims[2], input.display.dims[1]>>
                        ELSE input.display.dims
    /\ \A mirror \in Mirrors :
          parse_device_event(
              input,
              InputEvent("EV_KEY", "KEY_ROTATE_DISPLAY", input.rotation),
              mirror) = [input EXCEPT !.ty = <<>>]

\* From rotation 1 the display was turned to 2 and then to 0: the codes
\* are the protocol's again and the dimensions are swapped.
C30_Witness ==
    /\ input.display.rotation = 1
    /\ input.rotation = 0
    /\ input.tc = touch_codes(input.proto)
    /\ input.dims = <<3, 2>>

=============================================================================
